---------------------------- MODULE Spec2Model ----------------------------
(***************************************************************************)
(* Model of the hash-chained ledger of src/blockchain_ledger.py            *)
(* (class BlockchainLedger): its operations called one after another       *)
(* (Spec), with get_block (SpecRead), a mutation of a stored block         *)
(* followed by verify_chain_integrity (SpecTamper), and its operations     *)
(* called by concurrent callers (SpecConc); of the engine of               *)
(* src/smpc_engine.py (class SMPCEngine, taken as constructed): encryption *)
(* and decryption of one mapping (SpecEngine), hashing (SpecHash),         *)
(* aggregation of a batch (SpecAggregate) and of a damaged batch           *)
(* (SpecCorrupt); of the orchestrator of src/federated_learning.py (class  *)
(* FederatedLearningOrchestrator): check_convergence (SpecConverge), the   *)
(* participant registry and the round (SpecCoordinator), the averaging     *)
(* functions (SpecAverage); of the request handlers of src/app.py that     *)
(* drive a training session (SpecRequests); and of the three objects used  *)
(* together by one caller (SpecCore).  Further specifications: every       *)
(* ledger operation with the read-only ones (SpecLedger), mine_block with  *)
(* the proof-of-work loop taken one iteration at a time under fairness     *)
(* (SpecMine), the two lookups of a model hash (SpecVerify),               *)
(* check_convergence with several thresholds (SpecPlateau), and training   *)
(* rounds over a restart of the process (SpecRounds).                      *)
(*                                                                         *)
(* Values.  Strings that the ledger treats as opaque (model_hash,          *)
(* institution) and the ISO timestamps are naturals.  A hexadecimal        *)
(* SHA-256 digest is a sequence of naturals: its first two                 *)
(* characters are digits 0..DigitBase-1 computed by mixing every element   *)
(* of the serialized input, the remaining characters are the serialized    *)
(* input itself, so two digests are equal iff their inputs are equal       *)
(* (SHA-256 taken as collision free) while the leading characters vary     *)
(* with every field of the input, the nonce included.  hexdigest() has 16  *)
(* digit values; DigitBase bounds them so that the proof-of-work search    *)
(* stays short.                                                            *)
(***************************************************************************)
EXTENDS Integers, Sequences, FiniteSets, Bags, TLC

VARIABLES
    chain,                  \* self.chain: sequence of blocks, chain[1] is block 0
    pending_transactions,   \* self.pending_transactions
    now,                    \* the value datetime.utcnow() last returned
    ret,                    \* the call that returned last and what it returned
    tampered,               \* position in chain of the block mutated from outside, 0 if none
    thr,                    \* per caller: position inside add_transaction / mine_block
    submitted,              \* model hashes whose add_transaction call has returned
    master_key,             \* SMPCEngine.master_key
    payloads,               \* encrypted payloads held by the callers of the engine
    input,                  \* arguments the caller of a pure function holds
    participants,           \* FederatedLearningOrchestrator.participants
    current_round,          \* FederatedLearningOrchestrator.current_round
    db,                     \* rows of the tables the request handlers use
    session                 \* the Flask session of the caller

vars == <<chain, pending_transactions, now, ret, tampered, thr, submitted,
          master_key, payloads, input, participants, current_round, db, session>>

\* the state outside the ledger object
coordinator_vars == <<participants, current_round>>
request_vars == <<db, session>>
non_ledger_vars == <<master_key, payloads, input, coordinator_vars, request_vars>>

---------------------------------------------------------------------------
(* Bounds of the model *)

MaxChain == 3        \* blocks in the chain, genesis included
MaxTx == 2           \* add_transaction calls made on the ledger
MaxClock == 1        \* largest clock reading
MaxModelHash == 2    \* model hashes 1..MaxModelHash
DigitBase == 4       \* values a leading digest character takes

(* Program constants *)

difficulty == 2      \* self.difficulty

ModelHashes == 1..MaxModelHash
Users == {1}
Institutions == {1}
Threads == {1, 2}     \* concurrent callers of the module-level ledger

---------------------------------------------------------------------------
(* hashlib.sha256(...).hexdigest() *)

\* The leading digits: a weighted sum of the elements, every weight coprime
\* to the modulus, so changing one element (the nonce, say) by less than the
\* modulus changes the result.  The sum is the cardinality of the bag that
\* holds position k with multiplicity MixWeight(k) * (s[k] + 1).
MixWeight(k) == CASE k % 4 = 0 -> 1 [] k % 4 = 1 -> 3 [] k % 4 = 2 -> 7 [] OTHER -> 9

Mix(s) ==
    (BagCardinality([k \in 1..Len(s) |-> MixWeight(k) * (s[k] + 1)]) + Len(s))
        % (DigitBase * DigitBase)

sha256_hexdigest(s) ==
    LET m == Mix(s)
    IN  <<m \div DigitBase, m % DigitBase>> \o s

\* str.startswith('0' * n)
startswith_zeros(h, n) ==
    /\ Len(h) >= n
    /\ \A k \in 1..n : h[k] = 0

---------------------------------------------------------------------------
(* json.dumps(block_copy, sort_keys=True, default=str) *)

RECURSIVE dumps_transactions(_)
dumps_transaction(tx) ==
    <<tx.institution, tx.model_hash, tx.timestamp>>
        \o tx.transaction_hash \o <<tx.user_id>>

dumps_transactions(txs) ==
    IF txs = <<>> THEN <<>>
    ELSE dumps_transaction(Head(txs)) \o dumps_transactions(Tail(txs))

\* keys in sorted order: block_number, nonce, previous_hash, timestamp, transactions
dumps_block(block) ==
    <<block.block_number, block.nonce, Len(block.previous_hash)>>
        \o block.previous_hash
        \o <<block.timestamp, Len(block.transactions)>>
        \o dumps_transactions(block.transactions)

\* _calculate_hash: the 'hash' key is dropped before serializing
calculate_hash(block) == sha256_hexdigest(dumps_block(block))

\* _calculate_transaction_hash, t the clock reading taken inside it
calculate_transaction_hash(model_hash, user_id, t) ==
    sha256_hexdigest(<<model_hash, user_id, t>>)

NoHash == <<>>       \* 'hash': None
GenesisPrev == <<0>> \* 'previous_hash': '0'

---------------------------------------------------------------------------
(* _proof_of_work *)

RECURSIVE proof_of_work_loop(_, _, _)
proof_of_work_loop(block_copy, nonce, hash_value) ==
    IF startswith_zeros(hash_value, difficulty)
    THEN [hash |-> hash_value, nonce |-> nonce]
    ELSE LET copy2 == [block_copy EXCEPT !.nonce = nonce + 1]
         IN  proof_of_work_loop(copy2, nonce + 1, calculate_hash(copy2))

\* the search: the hash found and the nonce of the local copy that gave it
proof_of_work_search(block) ==
    proof_of_work_loop(block, 0, calculate_hash(block))

\* variant: the while loop is skipped, the first hash is returned
proof_of_work_no_search(block) == calculate_hash(block)

\* what _proof_of_work returns: the hash only (the nonce stays in block_copy)
proof_of_work(block) == proof_of_work_search(block).hash

---------------------------------------------------------------------------
(* read-only operations *)

\* the members of a Python list
elements(list) == {list[k] : k \in 1..Len(list)}

verify_block_integrity(block) == block.hash = calculate_hash(block)

\* variant: the pending pool is searched as well
verify_hash_with_pool(model_hash) ==
    \/ \E k \in 1..Len(pending_transactions) :
            pending_transactions[k].model_hash = model_hash
    \/ \E i \in 1..Len(chain) :
        /\ \E k \in 1..Len(chain[i].transactions) :
                chain[i].transactions[k].model_hash = model_hash
        /\ verify_block_integrity(chain[i])

verify_hash(model_hash) ==
    \E i \in 1..Len(chain) :
        /\ \E k \in 1..Len(chain[i].transactions) :
                chain[i].transactions[k].model_hash = model_hash
        /\ verify_block_integrity(chain[i])

\* variant: a block that failed the integrity check is not link-checked
verify_chain_step_short_circuit(results, i) ==
    LET current_block == chain[i + 1]
        previous_block == chain[i]
    IN  IF ~verify_block_integrity(current_block)
        THEN [results EXCEPT !.valid = FALSE, !.invalid_blocks = Append(@, i)]
        ELSE IF current_block.previous_hash # previous_block.hash
        THEN [results EXCEPT !.valid = FALSE, !.broken_links = Append(@, i)]
        ELSE results

\* one iteration of the loop of verify_chain_integrity; block i is chain[i + 1]
verify_chain_step(results, i) ==
    LET current_block == chain[i + 1]
        previous_block == chain[i]
        checked == IF ~verify_block_integrity(current_block)
                   THEN [results EXCEPT !.valid = FALSE,
                                        !.invalid_blocks = Append(@, i)]
                   ELSE results
    IN  IF current_block.previous_hash # previous_block.hash
        THEN [checked EXCEPT !.valid = FALSE, !.broken_links = Append(@, i)]
        ELSE checked

RECURSIVE verify_chain_loop(_, _)
\* for i in range(1, len(self.chain))
verify_chain_loop(results, i) ==
    IF i >= Len(chain) THEN results
    ELSE verify_chain_loop(verify_chain_step(results, i), i + 1)

verify_chain_integrity ==
    verify_chain_loop([valid |-> TRUE, total_blocks |-> Len(chain),
                       invalid_blocks |-> <<>>, broken_links |-> <<>>], 1)

get_next_block_number == Len(chain)

\* list[n] as Python evaluates it: a negative n counts from the end, an n
\* outside -len..len-1 raises IndexError
python_index(list, n) ==
    IF 0 <= n /\ n < Len(list) THEN [kind |-> "value", val |-> list[n + 1]]
    ELSE IF 0 - Len(list) <= n /\ n < 0
    THEN [kind |-> "value", val |-> list[Len(list) + n + 1]]
    ELSE [kind |-> "raise", error |-> "IndexError"]

\* get_block: the only test is block_number < len(self.chain); an exception is
\* logged and raised again
get_block(block_number) ==
    IF block_number < Len(chain) THEN python_index(chain, block_number)
    ELSE [kind |-> "none"]

RECURSIVE count_transactions(_)
\* sum(len(block['transactions']) for block in self.chain)
count_transactions(blocks) ==
    IF blocks = <<>> THEN 0
    ELSE Len(Head(blocks).transactions) + count_transactions(Tail(blocks))

---------------------------------------------------------------------------
(* construction *)

\* variant: the genesis block is appended without its hash
genesis_block_unhashed(t) ==
    [block_number |-> 0, timestamp |-> t, transactions |-> <<>>,
     previous_hash |-> GenesisPrev, hash |-> NoHash, nonce |-> 0]

genesis_block(t) ==
    LET g == [block_number |-> 0, timestamp |-> t, transactions |-> <<>>,
              previous_hash |-> GenesisPrev, hash |-> NoHash, nonce |-> 0]
    IN  [g EXCEPT !.hash = calculate_hash(g)]

Idle == [pc |-> "idle"]
NoRet == [op |-> "none"]

NoInput == [op |-> "none"]

\* no row in any table
NoRows == [training_sessions |-> <<>>, model_updates |-> <<>>,
           blockchain_records |-> <<>>]

\* a session without 'user_id'
NoUser == 0

\* the module-level objects of app.py constructed when the clock reads t0,
\* nothing called yet
ObjectsAt(t0) ==
    /\ now = t0
    /\ chain = <<genesis_block(t0)>>
    /\ pending_transactions = <<>>
    /\ ret = NoRet
    /\ tampered = 0
    /\ thr = [t \in Threads |-> Idle]
    /\ submitted = {}
    /\ master_key = 1
    /\ payloads = <<>>
    /\ participants = <<>>
    /\ current_round = 0
    /\ db = NoRows

Objects == ObjectsAt(0)

\* the objects constructed and a caller that has not logged in
Constructed ==
    /\ Objects
    /\ session = NoUser

Init ==
    /\ Constructed
    /\ input = NoInput

---------------------------------------------------------------------------
(* sequential operations *)

new_transaction(model_hash, user_id, institution, t1, t2) ==
    [model_hash |-> model_hash, user_id |-> user_id, institution |-> institution,
     timestamp |-> t1,
     transaction_hash |-> calculate_transaction_hash(model_hash, user_id, t2)]

\* a model_hash that is no str (None): f"{model_hash}" formats it,
\* model_hash[:16] raises TypeError
NoModelHash == 0
subscriptable(model_hash) == model_hash # NoModelHash

\* add_transaction: the clock is read twice, t1 for 'timestamp', t2 inside
\* _calculate_transaction_hash; the log line that slices model_hash comes
\* after the append
add_transaction(model_hash, user_id, institution) ==
    /\ tampered = 0
    /\ count_transactions(chain) + Len(pending_transactions) < MaxTx
    /\ \E t1 \in now..MaxClock : \E t2 \in t1..MaxClock :
         LET transaction == new_transaction(model_hash, user_id, institution, t1, t2)
         IN  /\ pending_transactions' = Append(pending_transactions, transaction)
             /\ ret' = IF subscriptable(model_hash)
                       THEN [op |-> "add_transaction", val |-> transaction]
                       ELSE [op |-> "add_transaction",
                             val |-> [kind |-> "raise", error |-> "TypeError"]]
             /\ now' = t2
    /\ UNCHANGED <<chain, tampered, thr, submitted>>
    /\ UNCHANGED non_ledger_vars

\* variant: the candidate does not reference the tail
candidate_block_unlinked(block_number, t, transactions, previous_hash) ==
    [block_number |-> block_number, timestamp |-> t, transactions |-> transactions,
     previous_hash |-> GenesisPrev, hash |-> NoHash, nonce |-> 0]

\* variant: the candidate takes the pool without its oldest transaction
candidate_block_drops_first(block_number, t, transactions, previous_hash) ==
    [block_number |-> block_number, timestamp |-> t, transactions |-> Tail(transactions),
     previous_hash |-> previous_hash, hash |-> NoHash, nonce |-> 0]

candidate_block(block_number, t, transactions, previous_hash) ==
    [block_number |-> block_number, timestamp |-> t, transactions |-> transactions,
     previous_hash |-> previous_hash, hash |-> NoHash, nonce |-> 0]

\* new_block['hash'] = self._proof_of_work(new_block): only 'hash' is assigned
sealed_block(new_block) == [new_block EXCEPT !.hash = proof_of_work(new_block)]

\* variant: no empty-pool check, an empty block is sealed
mine_block_empty_seals ==
    /\ tampered = 0
    /\ pending_transactions = <<>>
    /\ Len(chain) < MaxChain
    /\ LET new_block == [block_number |-> Len(chain), timestamp |-> now,
                         transactions |-> <<>>,
                         previous_hash |-> chain[Len(chain)].hash,
                         hash |-> NoHash, nonce |-> 0]
       IN  /\ chain' = Append(chain, new_block)
           /\ ret' = [op |-> "mine_block", none |-> FALSE, val |-> new_block]
    /\ UNCHANGED <<pending_transactions, now, tampered, thr, submitted>>
    /\ UNCHANGED non_ledger_vars

mine_block_empty ==
    /\ tampered = 0
    /\ pending_transactions = <<>>
    /\ ret' = [op |-> "mine_block", none |-> TRUE]
    /\ UNCHANGED <<chain, pending_transactions, now, tampered, thr, submitted>>
    /\ UNCHANGED non_ledger_vars

\* variant: the pool is not cleared after the block is appended
mine_block_pending_keeps_pool ==
    /\ tampered = 0
    /\ pending_transactions # <<>>
    /\ Len(chain) < MaxChain
    /\ \E t \in now..MaxClock :
         LET last_block == chain[Len(chain)]
             new_block == sealed_block(candidate_block(Len(chain), t,
                              pending_transactions, last_block.hash))
         IN  /\ chain' = Append(chain, new_block)
             /\ ret' = [op |-> "mine_block", none |-> FALSE, val |-> new_block]
             /\ now' = t
    /\ UNCHANGED <<pending_transactions, tampered, thr, submitted>>
    /\ UNCHANGED non_ledger_vars

\* variant: the new block takes the place of the tail
mine_block_pending_replaces_tail ==
    /\ tampered = 0
    /\ pending_transactions # <<>>
    /\ Len(chain) < MaxChain
    /\ \E t \in now..MaxClock :
         LET last_block == chain[Len(chain)]
             new_block == sealed_block(candidate_block(Len(chain), t,
                              pending_transactions, last_block.hash))
         IN  /\ chain' = IF Len(chain) > 1
                         THEN [chain EXCEPT ![Len(chain)] = new_block]
                         ELSE Append(chain, new_block)
             /\ pending_transactions' = <<>>
             /\ ret' = [op |-> "mine_block", none |-> FALSE, val |-> new_block]
             /\ now' = t
    /\ UNCHANGED <<tampered, thr, submitted>>
    /\ UNCHANGED non_ledger_vars

mine_block_pending ==
    /\ tampered = 0
    /\ pending_transactions # <<>>
    /\ Len(chain) < MaxChain
    /\ \E t \in now..MaxClock :
         LET last_block == chain[Len(chain)]
             new_block == sealed_block(candidate_block(Len(chain), t,
                              pending_transactions, last_block.hash))
         IN  /\ chain' = Append(chain, new_block)
             /\ pending_transactions' = <<>>
             /\ ret' = [op |-> "mine_block", none |-> FALSE, val |-> new_block]
             /\ now' = t
    /\ UNCHANGED <<tampered, thr, submitted>>
    /\ UNCHANGED non_ledger_vars

mine_block == mine_block_empty \/ mine_block_pending

\* callers of the read-only operations; ret records the call and its result
verify_hash_call(model_hash) ==
    /\ ret' = [op |-> "verify_hash", arg |-> model_hash, val |-> verify_hash(model_hash)]
    /\ UNCHANGED <<chain, pending_transactions, now, tampered, thr, submitted>>
    /\ UNCHANGED non_ledger_vars

verify_chain_integrity_call ==
    /\ ret' = [op |-> "verify_chain_integrity", val |-> verify_chain_integrity]
    /\ UNCHANGED <<chain, pending_transactions, now, tampered, thr, submitted>>
    /\ UNCHANGED non_ledger_vars

Next ==
    \/ \E m \in ModelHashes, u \in Users, i \in Institutions : add_transaction(m, u, i)
    \/ mine_block
    \/ \E m \in ModelHashes : verify_hash_call(m)
    \/ verify_chain_integrity_call

Spec == Init /\ [][Next]_vars

---------------------------------------------------------------------------
(* The ledger's operations together with get_block on any integer *)

BlockNumbers == (0 - MaxChain - 1)..(MaxChain + 1)

get_block_call(block_number) ==
    /\ ret' = [op |-> "get_block", arg |-> block_number,
               val |-> get_block(block_number)]
    /\ UNCHANGED <<chain, pending_transactions, now, tampered, thr, submitted>>
    /\ UNCHANGED non_ledger_vars

NextRead ==
    \/ Next
    \/ \E n \in BlockNumbers : get_block_call(n)

SpecRead == Init /\ [][NextRead]_vars

---------------------------------------------------------------------------
(* A holder of the ledger object mutating one stored field of one block     *)
(* (self.chain is a plain list of dicts), and verify_chain_integrity.        *)

BlockFields ==
    {"block_number", "timestamp", "transactions", "previous_hash", "hash", "nonce"}

foreign_transaction == new_transaction(1, 1, 1, 0, 0)

\* values a mutation may write into `field` of `block`, all different from
\* the stored one
tamper_values(block, field) ==
    CASE field = "block_number" -> {block.block_number + 1}
      [] field = "timestamp" -> {block.timestamp + 1}
      [] field = "nonce" -> {block.nonce + 1}
      [] field = "previous_hash" -> {GenesisPrev, <<1>>} \ {block.previous_hash}
      [] field = "hash" -> {<<1>>, calculate_hash(block)} \ {block.hash}
      [] field = "transactions" ->
            {<<>>, <<foreign_transaction>>} \ {block.transactions}

tamper(p, field) ==
    /\ tampered = 0
    /\ p \in 1..Len(chain)
    /\ \E v \in tamper_values(chain[p], field) :
            chain' = [chain EXCEPT ![p][field] = v]
    /\ tampered' = p
    /\ ret' = [op |-> "tamper", field |-> field]
    /\ UNCHANGED <<pending_transactions, now, thr, submitted>>
    /\ UNCHANGED non_ledger_vars

NextTamper ==
    \/ \E m \in ModelHashes, u \in Users, i \in Institutions : add_transaction(m, u, i)
    \/ mine_block
    \/ verify_chain_integrity_call
    \/ \E p \in 1..MaxChain, field \in BlockFields : tamper(p, field)

SpecTamper == Init /\ [][NextTamper]_vars

---------------------------------------------------------------------------
(* Concurrent callers of one ledger object.  The class takes no lock, so    *)
(* the statements of add_transaction and mine_block of different callers    *)
(* interleave; each action below is one access to self.chain or             *)
(* self.pending_transactions together with the local computation that       *)
(* follows it.  Every submission carries a model hash not used before, so   *)
(* that transactions can be told apart.                                     *)

in_flight_hashes ==
    {thr[t].transaction.model_hash : t \in {u \in Threads : thr[u].pc = "add_append"}}

unused_hashes == ModelHashes \ (submitted \cup in_flight_hashes)

miners == {t \in Threads : thr[t].pc \in {"mine_last", "mine_build", "mine_append", "mine_clear"}}

\* lines 79-85: the transaction dict is built
conc_add_build(t, user_id, institution) ==
    /\ thr[t].pc = "idle"
    /\ unused_hashes # {}
    /\ LET model_hash == CHOOSE m \in unused_hashes : \A n \in unused_hashes : m <= n
       IN  \E t1 \in now..MaxClock : \E t2 \in t1..MaxClock :
             /\ thr' = [thr EXCEPT ![t] =
                          [pc |-> "add_append",
                           transaction |-> new_transaction(model_hash, user_id,
                                               institution, t1, t2)]]
             /\ now' = t2
    /\ UNCHANGED <<chain, pending_transactions, ret, tampered, submitted>>
    /\ UNCHANGED non_ledger_vars

\* lines 87-90: self.pending_transactions.append(transaction); return
conc_add_append(t) ==
    /\ thr[t].pc = "add_append"
    /\ pending_transactions' = Append(pending_transactions, thr[t].transaction)
    /\ submitted' = submitted \cup {thr[t].transaction.model_hash}
    /\ ret' = [op |-> "add_transaction", val |-> thr[t].transaction]
    /\ thr' = [thr EXCEPT ![t] = Idle]
    /\ UNCHANGED <<chain, now, tampered>>
    /\ UNCHANGED non_ledger_vars

\* lines 109-111: the empty-pool check
conc_mine_check(t) ==
    /\ thr[t].pc = "idle"
    /\ Len(chain) + Cardinality(miners) < MaxChain
    /\ IF pending_transactions = <<>>
       THEN /\ ret' = [op |-> "mine_block", none |-> TRUE]
            /\ UNCHANGED thr
       ELSE /\ thr' = [thr EXCEPT ![t] = [pc |-> "mine_last"]]
            /\ UNCHANGED ret
    /\ UNCHANGED <<chain, pending_transactions, now, tampered, submitted>>
    /\ UNCHANGED non_ledger_vars

\* line 113: last_block = self.chain[-1]
conc_mine_last(t) ==
    /\ thr[t].pc = "mine_last"
    /\ thr' = [thr EXCEPT ![t] = [pc |-> "mine_build", last_block |-> chain[Len(chain)]]]
    /\ UNCHANGED <<chain, pending_transactions, now, ret, tampered, submitted>>
    /\ UNCHANGED non_ledger_vars

\* lines 115-125: new_block is built from len(self.chain), the clock and a copy
\* of the pool, then sealed
conc_mine_build(t) ==
    /\ thr[t].pc = "mine_build"
    /\ \E c \in now..MaxClock :
         /\ thr' = [thr EXCEPT ![t] =
                      [pc |-> "mine_append",
                       new_block |-> sealed_block(candidate_block(Len(chain), c,
                                        pending_transactions, thr[t].last_block.hash))]]
         /\ now' = c
    /\ UNCHANGED <<chain, pending_transactions, ret, tampered, submitted>>
    /\ UNCHANGED non_ledger_vars

\* line 128: self.chain.append(new_block)
conc_mine_append(t) ==
    /\ thr[t].pc = "mine_append"
    /\ chain' = Append(chain, thr[t].new_block)
    /\ thr' = [thr EXCEPT ![t] = [pc |-> "mine_clear", new_block |-> thr[t].new_block]]
    /\ UNCHANGED <<pending_transactions, now, ret, tampered, submitted>>
    /\ UNCHANGED non_ledger_vars

\* lines 131-134: self.pending_transactions = []; return new_block
conc_mine_clear(t) ==
    /\ thr[t].pc = "mine_clear"
    /\ pending_transactions' = <<>>
    /\ ret' = [op |-> "mine_block", none |-> FALSE, val |-> thr[t].new_block]
    /\ thr' = [thr EXCEPT ![t] = Idle]
    /\ UNCHANGED <<chain, now, tampered, submitted>>
    /\ UNCHANGED non_ledger_vars

get_ledger_summary ==
    [total_blocks |-> Len(chain),
     total_transactions |-> count_transactions(chain),
     pending_transactions |-> Len(pending_transactions),
     chain_valid |-> verify_chain_integrity.valid,
     latest_block |-> chain[Len(chain)]]

\* a reader calling get_ledger_summary; pool is the pending pool it read
conc_get_ledger_summary ==
    /\ ret' = [op |-> "get_ledger_summary", val |-> get_ledger_summary,
               pool |-> pending_transactions]
    /\ UNCHANGED <<chain, pending_transactions, now, tampered, thr, submitted>>
    /\ UNCHANGED non_ledger_vars

NextConc ==
    \/ \E t \in Threads, u \in Users, i \in Institutions : conc_add_build(t, u, i)
    \/ \E t \in Threads : conc_add_append(t)
    \/ \E t \in Threads : conc_mine_check(t)
    \/ \E t \in Threads : conc_mine_last(t)
    \/ \E t \in Threads : conc_mine_build(t)
    \/ \E t \in Threads : conc_mine_append(t)
    \/ \E t \in Threads : conc_mine_clear(t)
    \/ conc_get_ledger_summary

SpecConc == Init /\ [][NextConc]_vars

---------------------------------------------------------------------------
(* Values of the engine (src/smpc_engine.py).  A parameter mapping is a     *)
(* Python dict: the sequence of its items in insertion order, names         *)
(* distinct.  A value is a number or a list of numbers: [list, v] with v    *)
(* the one number or the elements.  A float is a natural in units of 1/16   *)
(* that keeps MantissaBits significant bits (a Python float keeps 53).      *)

Names == {1, 2}
Nums == {16, 20, 32, 48}        \* 1.0, 1.25, 2.0, 3.0
ListNums == {16, 48}

scalar(x) == [list |-> FALSE, v |-> <<x>>]
number_list(xs) == [list |-> TRUE, v |-> xs]

dict_keys(d) == [k \in 1..Len(d) |-> d[k].name]
dict_has(d, name) == \E k \in 1..Len(d) : d[k].name = name
dict_get(d, name) == d[CHOOSE k \in 1..Len(d) : d[k].name = name].value

\* d[name] = value
dict_set(d, name, value) ==
    IF dict_has(d, name)
    THEN [k \in 1..Len(d) |->
            IF d[k].name = name THEN [name |-> name, value |-> value] ELSE d[k]]
    ELSE Append(d, [name |-> name, value |-> value])

\* p == q on dicts: same items, whatever the insertion order
dict_eq(p, q) == Len(p) = Len(q) /\ elements(p) = elements(q)

---------------------------------------------------------------------------
(* json.dumps / json.loads on parameter mappings.  The text is a sequence   *)
(* of naturals: a punctuation code, QUOTE followed by a name, or NUM        *)
(* followed by a number (repr of a float reads back as the same float).     *)

LBRACE == 0
RBRACE == 1
LBRACKET == 2
RBRACKET == 3
COLON == 4
COMMA == 5
QUOTE == 6
NUM == 7

RECURSIVE dumps_numbers(_)
dumps_numbers(xs) ==
    IF xs = <<>> THEN <<>>
    ELSE <<NUM, Head(xs)>>
            \o (IF Tail(xs) = <<>> THEN <<>> ELSE <<COMMA>>)
            \o dumps_numbers(Tail(xs))

\* variant: a list of one number is written as the number
dumps_value_unwraps(value) ==
    IF value.list /\ Len(value.v) # 1
    THEN <<LBRACKET>> \o dumps_numbers(value.v) \o <<RBRACKET>>
    ELSE <<NUM, value.v[1]>>

dumps_value(value) ==
    IF value.list THEN <<LBRACKET>> \o dumps_numbers(value.v) \o <<RBRACKET>>
    ELSE <<NUM, value.v[1]>>

RECURSIVE dumps_items(_)
dumps_items(d) ==
    IF d = <<>> THEN <<>>
    ELSE <<QUOTE, Head(d).name, COLON>> \o dumps_value(Head(d).value)
            \o (IF Tail(d) = <<>> THEN <<>> ELSE <<COMMA>>)
            \o dumps_items(Tail(d))

\* json.dumps(parameters): items in insertion order
json_dumps(d) == <<LBRACE>> \o dumps_items(d) \o <<RBRACE>>

\* variant: sort_keys is left out
json_dumps_sort_keys_unsorted(d) == <<LBRACE>> \o dumps_items(d) \o <<RBRACE>>

\* json.dumps(data, sort_keys=True)
json_dumps_sort_keys(d) ==
    <<LBRACE>> \o dumps_items(SortSeq(d, LAMBDA a, b : a.name < b.name))
               \o <<RBRACE>>

RECURSIVE loads_numbers(_, _, _)
\* s[i] = NUM at the start of an element of a list
loads_numbers(s, i, acc) ==
    IF s[i + 2] = COMMA THEN loads_numbers(s, i + 3, Append(acc, s[i + 1]))
    ELSE [val |-> Append(acc, s[i + 1]), next |-> i + 3]

\* the value that starts at s[i] and the position after it
loads_value(s, i) ==
    IF s[i] = NUM THEN [val |-> scalar(s[i + 1]), next |-> i + 2]
    ELSE IF s[i + 1] = RBRACKET THEN [val |-> number_list(<<>>), next |-> i + 2]
    ELSE LET r == loads_numbers(s, i + 1, <<>>)
         IN  [val |-> number_list(r.val), next |-> r.next]

RECURSIVE loads_items(_, _, _)
\* s[i] = QUOTE at the start of an item
loads_items(s, i, acc) ==
    LET r == loads_value(s, i + 3)
        d == dict_set(acc, s[i + 1], r.val)
    IN  IF s[r.next] = COMMA THEN loads_items(s, r.next + 1, d) ELSE d

\* json.loads of a text that json.dumps wrote
json_loads(s) == IF s[2] = RBRACE THEN <<>> ELSE loads_items(s, 2, <<>>)

---------------------------------------------------------------------------
(* Fernet and base64.  A Fernet token is its IV (with the timestamp), the   *)
(* AES ciphertext and the HMAC under the key, all kept symbolic: a          *)
(* ciphertext opens only under its key and an HMAC is only made with the    *)
(* key.  A base64 string is the token it encodes, or not decodable.         *)

MaxIV == 2           \* values os.urandom gives Fernet for one encryption
MaxListLen == 2      \* elements of a list-valued parameter
MaxPayloads == 2     \* encrypt_parameters calls made on one mapping

IVs == 1..MaxIV

aes(key, iv, plaintext) == [key |-> key, iv |-> iv, plaintext |-> plaintext]
hmac(key, iv, ciphertext) == [key |-> key, iv |-> iv, ciphertext |-> ciphertext]

fernet_encrypt(key, iv, data) ==
    [iv |-> iv, ciphertext |-> aes(key, iv, data),
     hmac |-> hmac(key, iv, aes(key, iv, data))]

fernet_decrypt(key, token) ==
    IF token.hmac = hmac(key, token.iv, token.ciphertext)
    THEN [kind |-> "value", val |-> token.ciphertext.plaintext]
    ELSE [kind |-> "raise", error |-> "InvalidToken"]

b64encode(token) == [b64 |-> TRUE, token |-> token]

b64decode(string) ==
    IF string.b64 THEN [kind |-> "value", val |-> string.token]
    ELSE [kind |-> "raise", error |-> "binascii.Error"]

---------------------------------------------------------------------------
(* SMPCEngine: encryption, decryption and hashing *)

encrypt_parameters(parameters, iv) ==
    b64encode(fernet_encrypt(master_key, iv, json_dumps(parameters)))

\* every exception is logged and raised again
decrypt_parameters(encrypted_data) ==
    LET encrypted_bytes == b64decode(encrypted_data)
    IN  IF encrypted_bytes.kind = "raise" THEN encrypted_bytes
        ELSE LET decrypted_data == fernet_decrypt(master_key, encrypted_bytes.val)
             IN  IF decrypted_data.kind = "raise" THEN decrypted_data
                 ELSE [kind |-> "value", val |-> json_loads(decrypted_data.val)]

\* data is a dict (kind "dict") or a str (kind "str", its characters)
generate_hash(data) ==
    IF data.kind = "dict" THEN sha256_hexdigest(json_dumps_sort_keys(data.v))
    ELSE sha256_hexdigest(data.v)

\* SMPCEngine.verify_hash
engine_verify_hash(data, expected_hash) == generate_hash(data) = expected_hash

---------------------------------------------------------------------------
(* One caller holding a parameter mapping and calling the engine on it *)

Lists == UNION {[1..n -> ListNums] : n \in 0..MaxListLen}
ParamValues == {scalar(x) : x \in Nums} \cup {number_list(xs) : xs \in Lists}

NameOrders ==
    {o \in UNION {[1..n -> Names] : n \in 0..Cardinality(Names)} :
        \A j, k \in 1..Len(o) : j # k => o[j] # o[k]}

ParamMaps ==
    UNION {{[k \in 1..Len(o) |-> [name |-> o[k], value |-> f[k]]] :
                f \in [1..Len(o) -> ParamValues]} : o \in NameOrders}

reversed(list) == [k \in 1..Len(list) |-> list[Len(list) + 1 - k]]

as_dict(p) == [kind |-> "dict", v |-> p]
as_str(s) == [kind |-> "str", v |-> s]

\* what the caller hashes: the mapping, or its JSON text
HashData(p) == {as_dict(p), as_str(json_dumps(p))}

\* hashes the caller may hold for its mapping: the right one, the hashes of
\* the same items inserted in the opposite order, of the mapping without its
\* last item and of the empty mapping, and no hash
ExpectedHashes(p) ==
    {generate_hash(as_dict(q)) :
        q \in {p, reversed(p), SubSeq(p, 1, Len(p) - 1), <<>>}} \cup {NoHash}

InitEngine ==
    /\ Constructed
    /\ \E p \in ParamMaps : input = [op |-> "parameters", parameters |-> p]

ledger_vars == <<chain, pending_transactions, now, tampered, thr, submitted>>

encrypt_parameters_call ==
    /\ Len(payloads) < MaxPayloads
    /\ \E iv \in IVs :
        LET encrypted_str == encrypt_parameters(input.parameters, iv)
        IN  /\ payloads' = Append(payloads, encrypted_str)
            /\ ret' = [op |-> "encrypt_parameters", val |-> encrypted_str]
    /\ UNCHANGED <<master_key, input>>
    /\ UNCHANGED ledger_vars
    /\ UNCHANGED <<coordinator_vars, request_vars>>

decrypt_parameters_call(k) ==
    /\ k \in 1..Len(payloads)
    /\ ret' = [op |-> "decrypt_parameters", arg |-> payloads[k],
               val |-> decrypt_parameters(payloads[k])]
    /\ UNCHANGED <<master_key, payloads, input>>
    /\ UNCHANGED ledger_vars
    /\ UNCHANGED <<coordinator_vars, request_vars>>

generate_hash_call(data) ==
    /\ ret' = [op |-> "generate_hash", data |-> data, val |-> generate_hash(data)]
    /\ UNCHANGED <<master_key, payloads, input>>
    /\ UNCHANGED ledger_vars
    /\ UNCHANGED <<coordinator_vars, request_vars>>

engine_verify_hash_call(data, expected_hash) ==
    /\ ret' = [op |-> "verify_hash", data |-> data, expected_hash |-> expected_hash,
               val |-> engine_verify_hash(data, expected_hash)]
    /\ UNCHANGED <<master_key, payloads, input>>
    /\ UNCHANGED ledger_vars
    /\ UNCHANGED <<coordinator_vars, request_vars>>

\* the caller encrypting its mapping and decrypting what it got
NextEngine ==
    \/ encrypt_parameters_call
    \/ \E k \in 1..MaxPayloads : decrypt_parameters_call(k)

SpecEngine == InitEngine /\ [][NextEngine]_vars

\* the caller hashing its mapping and verifying hashes against it
NextHash ==
    \/ \E data \in HashData(input.parameters) : generate_hash_call(data)
    \/ \E data \in HashData(input.parameters),
          expected_hash \in ExpectedHashes(input.parameters) :
            engine_verify_hash_call(data, expected_hash)

SpecHash == InitEngine /\ [][NextHash]_vars

---------------------------------------------------------------------------
(* Float arithmetic.  A float is a natural (units of 1/16) with at most     *)
(* MantissaBits significant bits; the result of an addition or a division   *)
(* is the exact result rounded to the nearest float, ties to the even       *)
(* mantissa, as IEEE 754 does with 53 bits.                                 *)

MantissaBits == 3    \* significant bits a float keeps

\* the e with 2^e <= a / n < 2^(e + 1), for a >= n > 0
float_exponent(a, n) ==
    CHOOSE e \in 0..20 : n * 2^e <= a /\ a < n * 2^(e + 1)

\* the distance between neighbouring floats around a / n
float_ulp(a, n) ==
    LET e == float_exponent(a, n)
    IN  IF e >= MantissaBits - 1 THEN 2^(e - (MantissaBits - 1)) ELSE 1

\* a / n rounded to the nearest float
float_round(a, n) ==
    IF a < n THEN 0
    ELSE LET u == float_ulp(a, n)
             m == a \div (n * u)
             r == a - m * n * u
         IN  IF 2 * r < n * u THEN m * u
             ELSE IF 2 * r > n * u THEN (m + 1) * u
             ELSE IF m % 2 = 0 THEN m * u ELSE (m + 1) * u

float_add(x, y) == float_round(x + y, 1)
float_div(x, n) == float_round(x, n)

RECURSIVE float_sum_from(_, _)
\* the running total of sum(): one rounded addition per element, in order
float_sum_from(xs, total) ==
    IF xs = <<>> THEN total
    ELSE float_sum_from(Tail(xs), float_add(total, Head(xs)))

\* sum(xs): starts from the integer 0
python_sum(xs) == float_sum_from(xs, 0)

---------------------------------------------------------------------------
(* _average_parameters and secure_aggregate.  The batches of the model keep *)
(* one kind of value per name (a number for every contributor or a list for *)
(* every contributor); what numpy does with a mixture is not modelled.      *)

\* the values of param_name, from the payloads that contain it, in order
param_values(parameters_list, param_name) ==
    LET holders == SelectSeq(parameters_list, LAMBDA d : dict_has(d, param_name))
    IN  [k \in 1..Len(holders) |-> dict_get(holders[k], param_name)]

\* np.mean(param_values, axis=0).tolist(): arrays of one shape are summed
\* element by element and divided by their number
np_mean(values) ==
    IF \E k \in 1..Len(values) : Len(values[k].v) # Len(values[1].v)
    THEN [kind |-> "raise", error |-> "ValueError"]
    ELSE [kind |-> "value",
          val |-> number_list(
                    [j \in 1..Len(values[1].v) |->
                        float_div(python_sum([k \in 1..Len(values) |-> values[k].v[j]]),
                                  Len(values))])]

\* variant: the first contributor's value is returned
sum_over_len_first_only(values) == [kind |-> "value", val |-> values[1]]

\* sum(param_values) / len(param_values)
sum_over_len(values) ==
    [kind |-> "value",
     val |-> scalar(float_div(python_sum([k \in 1..Len(values) |-> values[k].v[1]]),
                              Len(values)))]

averaged(values) ==
    IF values[1].list THEN np_mean(values) ELSE sum_over_len(values)

RECURSIVE average_names(_, _, _)
\* the loop over param_name; an exception leaves the loop
average_names(parameters_list, names, aggregated) ==
    IF names = <<>> THEN [kind |-> "value", val |-> aggregated]
    ELSE LET values == param_values(parameters_list, Head(names))
         IN  IF values = <<>>
             THEN average_names(parameters_list, Tail(names), aggregated)
             ELSE LET a == averaged(values)
                  IN  IF a.kind = "raise" THEN a
                      ELSE average_names(parameters_list, Tail(names),
                                         dict_set(aggregated, Head(names), a.val))

\* _average_parameters: the names are those of parameters_list[0]
average_parameters(parameters_list) ==
    IF parameters_list = <<>> THEN [kind |-> "value", val |-> <<>>]
    ELSE average_names(parameters_list, dict_keys(parameters_list[1]), <<>>)

RECURSIVE decrypt_all_skipping(_, _)
\* variant of the loop: a payload that fails is left out
decrypt_all_skipping(encrypted_parameters_list, decrypted_list) ==
    IF encrypted_parameters_list = <<>>
    THEN [kind |-> "value", val |-> decrypted_list]
    ELSE LET decrypted == decrypt_parameters(Head(encrypted_parameters_list))
         IN  decrypt_all_skipping(Tail(encrypted_parameters_list),
                IF decrypted.kind = "raise" THEN decrypted_list
                ELSE Append(decrypted_list, decrypted.val))

RECURSIVE decrypt_all(_, _)
\* the loop of secure_aggregate: the first payload that fails ends the call
decrypt_all(encrypted_parameters_list, decrypted_list) ==
    IF encrypted_parameters_list = <<>>
    THEN [kind |-> "value", val |-> decrypted_list]
    ELSE LET decrypted == decrypt_parameters(Head(encrypted_parameters_list))
         IN  IF decrypted.kind = "raise" THEN decrypted
             ELSE decrypt_all(Tail(encrypted_parameters_list),
                              Append(decrypted_list, decrypted.val))

\* variant: no test for the empty list
secure_aggregate_unchecked(encrypted_parameters_list) ==
    LET decrypted_list == decrypt_all(encrypted_parameters_list, <<>>)
    IN  IF decrypted_list.kind = "raise" THEN decrypted_list
        ELSE average_parameters(decrypted_list.val)

secure_aggregate(encrypted_parameters_list) ==
    IF encrypted_parameters_list = <<>>
    THEN [kind |-> "raise", error |-> "ValueError"]
    ELSE LET decrypted_list == decrypt_all(encrypted_parameters_list, <<>>)
         IN  IF decrypted_list.kind = "raise" THEN decrypted_list
             ELSE average_parameters(decrypted_list.val)

---------------------------------------------------------------------------
(* Contributors encrypting one mapping each, and the aggregation of the     *)
(* batch.  Name 1 is a number for every contributor, name 2 a list.         *)

MaxBatch == 3        \* contributors of one batch

AggLists == {<<16, 48>>}
OtherKey == master_key + 1

AggMaps ==
    {<<>>}
    \cup {<<[name |-> 1, value |-> scalar(x)]>> : x \in Nums}
    \cup {<<[name |-> 2, value |-> number_list(l)]>> : l \in AggLists}
    \cup {<<[name |-> 1, value |-> scalar(x)], [name |-> 2, value |-> number_list(l)]>> :
            x \in Nums, l \in AggLists}

CorruptMaps ==
    {<<[name |-> 1, value |-> scalar(16)]>>,
     <<[name |-> 1, value |-> scalar(48)], [name |-> 2, value |-> number_list(<<16, 48>>)]>>}

Batches(maps) == UNION {[1..n -> maps] : n \in 0..MaxBatch}

InitAggregate ==
    /\ Constructed
    /\ \E b \in Batches(AggMaps) : input = [op |-> "batch", parameters_list |-> b]

InitCorrupt ==
    /\ Constructed
    /\ \E b \in Batches(CorruptMaps) : input = [op |-> "batch", parameters_list |-> b]

\* every contributor has its mapping encrypted
encrypt_batch ==
    /\ payloads = <<>>
    /\ input.parameters_list # <<>>
    /\ \E iv \in IVs :
        payloads' = [k \in 1..Len(input.parameters_list) |->
                        encrypt_parameters(input.parameters_list[k], iv)]
    /\ ret' = [op |-> "encrypt_parameters"]
    /\ UNCHANGED <<master_key, input>>
    /\ UNCHANGED ledger_vars
    /\ UNCHANGED <<coordinator_vars, request_vars>>

secure_aggregate_call ==
    /\ ret' = [op |-> "secure_aggregate", arg |-> payloads,
               val |-> secure_aggregate(payloads)]
    /\ UNCHANGED <<master_key, payloads, input>>
    /\ UNCHANGED ledger_vars
    /\ UNCHANGED <<coordinator_vars, request_vars>>

NextAggregate ==
    \/ encrypt_batch
    \/ secure_aggregate_call

SpecAggregate == InitAggregate /\ [][NextAggregate]_vars

undecryptable(payload) == decrypt_parameters(payload).kind = "raise"

\* what a stored payload becomes: bits of the ciphertext flipped, the string
\* cut so that it is no base64 any more, or a payload of another engine
damaged(payload, how) ==
    CASE how = "flipped" ->
            [payload EXCEPT !.token.ciphertext.plaintext = Tail(@)]
      [] how = "truncated" -> [payload EXCEPT !.b64 = FALSE]
      [] how = "other_key" ->
            b64encode(fernet_encrypt(OtherKey, payload.token.iv,
                                     payload.token.ciphertext.plaintext))

Damages == {"flipped", "truncated", "other_key"}

\* a payload is damaged; the batch holds at most two damaged payloads
corrupt(k, how) ==
    /\ k \in 1..Len(payloads)
    /\ ~undecryptable(payloads[k])
    /\ Cardinality({j \in 1..Len(payloads) : undecryptable(payloads[j])}) < 2
    /\ payloads' = [payloads EXCEPT ![k] = damaged(@, how)]
    /\ ret' = [op |-> "corrupt", arg |-> k]
    /\ UNCHANGED <<master_key, input>>
    /\ UNCHANGED ledger_vars
    /\ UNCHANGED <<coordinator_vars, request_vars>>

\* after a failed aggregation the caller drops the payloads that do not
\* decrypt
discard_damaged ==
    /\ ret.op = "secure_aggregate"
    /\ ret.val.kind = "raise"
    /\ \E k \in 1..Len(payloads) : undecryptable(payloads[k])
    /\ payloads' = SelectSeq(payloads, LAMBDA x : ~undecryptable(x))
    /\ ret' = [op |-> "discard"]
    /\ UNCHANGED <<master_key, input>>
    /\ UNCHANGED ledger_vars
    /\ UNCHANGED <<coordinator_vars, request_vars>>

NextCorrupt ==
    \/ encrypt_batch
    \/ secure_aggregate_call
    \/ \E k \in 1..MaxBatch, how \in Damages : corrupt(k, how)
    \/ discard_damaged

SpecCorrupt == InitCorrupt /\ [][NextCorrupt]_vars

---------------------------------------------------------------------------
(* FederatedLearningOrchestrator.check_convergence                          *)
(* (src/federated_learning.py).  Accuracies and the threshold are in        *)
(* thousandths, so 0.01 is 10; the differences of the histories below are   *)
(* on the same side of the threshold in float arithmetic as they are here.  *)

default_threshold == 10     \* threshold=0.01
MaxPatience == 3            \* largest patience passed
MaxHistory == 4             \* entries of an accuracy history

Accuracies == {500, 600, 750, 800, 810, 815, 816, 900}
Histories == UNION {[1..n -> Accuracies] : n \in 0..MaxHistory}
Patiences == 0..MaxPatience

\* max(list)
list_max(list) == CHOOSE x \in elements(list) : \A y \in elements(list) : y <= x

\* the absolute value of a difference
magnitude(x) == IF x < 0 THEN 0 - x ELSE x

\* variant: the differences are taken without their sign
recent_improvements_absolute(accuracy_history, patience) ==
    LET first == Len(accuracy_history) - patience
        used == SelectSeq([k \in 1..patience |-> first + k - 1], LAMBDA i : i > 0)
    IN  [k \in 1..Len(used) |->
            magnitude(accuracy_history[used[k] + 1] - accuracy_history[used[k]])]

\* the loop over i in range(len - patience, len): entry i (0-based) is
\* history[i + 1]; the difference to the entry before it is taken when i > 0
recent_improvements(accuracy_history, patience) ==
    LET first == Len(accuracy_history) - patience
        used == SelectSeq([k \in 1..patience |-> first + k - 1], LAMBDA i : i > 0)
    IN  [k \in 1..Len(used) |->
            accuracy_history[used[k] + 1] - accuracy_history[used[k]]]

\* variant: a history one entry short of `patience` passes the guard
not_enough_history_one_short(accuracy_history, patience) ==
    Len(accuracy_history) < patience - 1

\* if len(accuracy_history) < patience
not_enough_history(accuracy_history, patience) ==
    Len(accuracy_history) < patience

check_convergence(accuracy_history, threshold, patience) ==
    IF not_enough_history(accuracy_history, patience)
    THEN [kind |-> "value",
          val |-> [converged |-> FALSE, message |-> "Not enough history"]]
    ELSE LET improvements == recent_improvements(accuracy_history, patience)
             max_improvement ==
                IF improvements # <<>> THEN list_max(improvements) ELSE 0
             last == python_index(accuracy_history, 0 - 1)
         IN  IF last.kind = "raise" THEN last
             ELSE IF max_improvement < threshold
             THEN [kind |-> "value",
                   val |-> [converged |-> TRUE, message |-> "Model converged",
                            final_accuracy |-> last.val]]
             ELSE [kind |-> "value",
                   val |-> [converged |-> FALSE, message |-> "Model still improving",
                            max_improvement |-> max_improvement,
                            current_accuracy |-> last.val]]

InitConverge ==
    /\ Constructed
    /\ \E h \in Histories, p \in Patiences :
        input = [op |-> "check_convergence", accuracy_history |-> h,
                 threshold |-> default_threshold, patience |-> p]

check_convergence_call ==
    /\ ret' = [op |-> "check_convergence",
               val |-> check_convergence(input.accuracy_history, input.threshold,
                                         input.patience)]
    /\ UNCHANGED <<master_key, payloads, input>>
    /\ UNCHANGED ledger_vars
    /\ UNCHANGED <<coordinator_vars, request_vars>>

NextConverge == check_convergence_call

SpecConverge == InitConverge /\ [][NextConverge]_vars

---------------------------------------------------------------------------
(* check_convergence called with several thresholds on histories that     *)
(* rise, stay and fall.                                                    *)

Thresholds == {1, default_threshold, 100}
PlateauAccuracies == {800, 810, 900}
PlateauHistories == UNION {[1..n -> PlateauAccuracies] : n \in 0..MaxHistory}

InitPlateau ==
    /\ Constructed
    /\ \E h \in PlateauHistories, p \in Patiences, t \in Thresholds :
        input = [op |-> "check_convergence", accuracy_history |-> h,
                 threshold |-> t, patience |-> p]

SpecPlateau == InitPlateau /\ [][NextConverge]_vars

---------------------------------------------------------------------------
(* FederatedLearningOrchestrator: the participant registry and the round    *)
(* (src/federated_learning.py).  self.participants is a dict from           *)
(* participant id to the participant's dict: a function on the registered   *)
(* ids whose values are functions on the keys present.                      *)

MaxUpdates == 2          \* update_participant_stats calls counted per record
MaxRound == 2            \* largest round number passed to initialize_round

ParticipantIds == {1, 2}
RoundNumbers == 0..MaxRound
Algorithms == {"federated_averaging"}
LocalAccuracies == {800, 900}

\* the dict stored by register_participant
new_participant(institution_name, t) ==
    [institution |-> institution_name, status |-> "active", registered_at |-> t,
     rounds_participated |-> 0, model_updates_submitted |-> 0]

\* del self.participants[participant_id]
dict_del(dict, key) == [k \in (DOMAIN dict) \ {key} |-> dict[k]]

\* variant: the record of a registered id is replaced by a fresh one
register_participant_again(participant_id, institution_name) ==
    /\ \E t \in now..MaxClock :
        /\ participants' = (participant_id :> new_participant(institution_name, t))
                                @@ participants
        /\ now' = t
    /\ ret' = [op |-> "register_participant", arg |-> participant_id,
               val |-> [kind |-> "value",
                        val |-> IF participant_id \in DOMAIN participants
                                THEN [status |-> "already_registered"]
                                ELSE [status |-> "success",
                                      participant_id |-> participant_id]]]
    /\ UNCHANGED <<current_round, master_key, payloads, input, request_vars>>
    /\ UNCHANGED <<chain, pending_transactions, tampered, thr, submitted>>

register_participant(participant_id, institution_name) ==
    /\ IF participant_id \in DOMAIN participants
       THEN /\ ret' = [op |-> "register_participant", arg |-> participant_id,
                       val |-> [kind |-> "value",
                                val |-> [status |-> "already_registered"]]]
            /\ UNCHANGED <<participants, now>>
       ELSE \E t \in now..MaxClock :
            /\ participants' = (participant_id :> new_participant(institution_name, t))
                                    @@ participants
            /\ now' = t
            /\ ret' = [op |-> "register_participant", arg |-> participant_id,
                       val |-> [kind |-> "value",
                                val |-> [status |-> "success",
                                         participant_id |-> participant_id]]]
    /\ UNCHANGED <<current_round, master_key, payloads, input, request_vars>>
    /\ UNCHANGED <<chain, pending_transactions, tampered, thr, submitted>>

\* variant: the counter of submitted updates is left as it was
updated_participant_rounds_only(participant, accuracy, t) ==
    ("last_accuracy" :> accuracy) @@ ("last_update" :> t)
        @@ [participant EXCEPT !.rounds_participated = @ + 1]

\* the participant's dict after the four assignments of lines 158-161
updated_participant(participant, accuracy, t) ==
    ("last_accuracy" :> accuracy) @@ ("last_update" :> t)
        @@ [participant EXCEPT !.rounds_participated = @ + 1,
                               !.model_updates_submitted = @ + 1]

update_participant_stats(participant_id, accuracy) ==
    /\ IF participant_id \notin DOMAIN participants
       THEN /\ ret' = [op |-> "update_participant_stats", arg |-> participant_id,
                       val |-> [kind |-> "raise", error |-> "ValueError"]]
            /\ UNCHANGED <<participants, now>>
       ELSE /\ participants[participant_id].rounds_participated < MaxUpdates
            /\ \E t \in now..MaxClock :
                LET participant ==
                        updated_participant(participants[participant_id], accuracy, t)
                IN  /\ participants' =
                            [participants EXCEPT ![participant_id] = participant]
                    /\ now' = t
                    /\ ret' = [op |-> "update_participant_stats",
                               arg |-> participant_id, accuracy |-> accuracy,
                               val |-> [kind |-> "value", val |-> participant]]
    /\ UNCHANGED <<current_round, master_key, payloads, input, request_vars>>
    /\ UNCHANGED <<chain, pending_transactions, tampered, thr, submitted>>

remove_participant(participant_id) ==
    /\ IF participant_id \in DOMAIN participants
       THEN /\ participants' = dict_del(participants, participant_id)
            /\ ret' = [op |-> "remove_participant", arg |-> participant_id,
                       val |-> [kind |-> "value", val |-> [status |-> "success"]]]
       ELSE /\ ret' = [op |-> "remove_participant", arg |-> participant_id,
                       val |-> [kind |-> "value", val |-> [status |-> "error"]]]
            /\ UNCHANGED participants
    /\ UNCHANGED <<current_round, master_key, payloads, input, request_vars>>
    /\ UNCHANGED ledger_vars

\* the round_info dict returned by initialize_round
\* variant: the registry is not counted
round_info_no_count(round_number, algorithm, t) ==
    [round_number |-> round_number, algorithm |-> algorithm,
     status |-> "initialized", timestamp |-> t, participants |-> 0]

round_info(round_number, algorithm, t) ==
    [round_number |-> round_number, algorithm |-> algorithm,
     status |-> "initialized", timestamp |-> t,
     participants |-> Cardinality(DOMAIN participants)]

initialize_round(round_number, algorithm) ==
    /\ current_round' = round_number
    /\ \E t \in now..MaxClock :
        /\ now' = t
        /\ ret' = [op |-> "initialize_round", arg |-> round_number,
                   val |-> [kind |-> "value",
                            val |-> round_info(round_number, algorithm, t)]]
    /\ UNCHANGED <<participants, master_key, payloads, input, request_vars>>
    /\ UNCHANGED <<chain, pending_transactions, tampered, thr, submitted>>

NextCoordinator ==
    \/ \E id \in ParticipantIds, i \in Institutions : register_participant(id, i)
    \/ \E id \in ParticipantIds, a \in LocalAccuracies :
            update_participant_stats(id, a)
    \/ \E id \in ParticipantIds : remove_participant(id)
    \/ \E n \in RoundNumbers, a \in Algorithms : initialize_round(n, a)

SpecCoordinator == Init /\ [][NextCoordinator]_vars

---------------------------------------------------------------------------
(* federated_averaging and weighted_averaging (src/federated_learning.py).  *)
(* A weight vector is a list of numbers, all vectors of one call of the     *)
(* same length.  The arithmetic of this section is exact: a number is the   *)
(* fraction n / d in lowest terms, so that what is checked is which         *)
(* weights the code applies; a float result differs from the fraction by    *)
(* the rounding of its operations.  numpy.average raises ValueError when    *)
(* the number of weights differs from the number of vectors.                *)

MaxVectors == 2          \* weight vectors passed to one call

Coordinates == {1, 3}
VectorLens == {1, 2}
DataSizes == {0, 1, 3}

RECURSIVE gcd(_, _)
gcd(a, b) == IF b = 0 THEN a ELSE gcd(b, a % b)

frac(n, d) == [n |-> n \div gcd(n, d), d |-> d \div gcd(n, d)]
frac_add(x, y) == frac(x.n * y.d + y.n * x.d, x.d * y.d)
frac_mul(x, y) == frac(x.n * y.n, x.d * y.d)
frac_div(x, y) == frac(x.n * y.d, x.d * y.n)

RECURSIVE frac_sum_from(_, _)
frac_sum_from(xs, total) ==
    IF xs = <<>> THEN total
    ELSE frac_sum_from(Tail(xs), frac_add(total, Head(xs)))

\* the sum of a list of numbers
frac_sum(xs) == frac_sum_from(xs, frac(0, 1))

\* sum(data_sizes), the sizes being integers
RECURSIVE int_sum(_)
int_sum(xs) == IF xs = <<>> THEN 0 ELSE Head(xs) + int_sum(Tail(xs))

\* the argument weights: None, or a list of numbers
NoWeights == [none |-> TRUE]
weights_list(v) == [none |-> FALSE, v |-> v]

\* np.mean(model_weights_array, axis=0)
array_mean(a) ==
    [j \in 1..Len(a[1]) |->
        frac_div(frac_sum([i \in 1..Len(a) |-> frac(a[i][j], 1)]), frac(Len(a), 1))]

\* variant: the weights are not applied
array_average_unweighted(a, weights) ==
    IF Len(weights) # Len(a) THEN [kind |-> "raise", error |-> "ValueError"]
    ELSE [kind |-> "value", val |-> array_mean(a)]

\* np.average(model_weights_array, axis=0, weights=weights):
\* the sum of the weighted vectors divided by the sum of the weights
array_average(a, weights) ==
    IF Len(weights) # Len(a) THEN [kind |-> "raise", error |-> "ValueError"]
    ELSE [kind |-> "value",
          val |-> [j \in 1..Len(a[1]) |->
                    frac_div(frac_sum([i \in 1..Len(a) |->
                                        frac_mul(frac(a[i][j], 1), weights[i])]),
                             frac_sum(weights))]]

\* weights / weights.sum(); the weights passed here do not sum to 0
normalized(weights) ==
    [i \in 1..Len(weights) |-> frac_div(weights[i], frac_sum(weights))]

federated_averaging(model_weights_list, weights) ==
    IF model_weights_list = <<>>
    THEN [kind |-> "raise", error |-> "ValueError"]
    ELSE IF weights.none
    THEN [kind |-> "value", val |-> array_mean(model_weights_list)]
    ELSE array_average(model_weights_list, normalized(weights.v))

\* size / total_size is evaluated once per element of data_sizes
weighted_averaging(model_weights_list, data_sizes) ==
    LET total_size == int_sum(data_sizes)
    IN  IF data_sizes # <<>> /\ total_size = 0
        THEN [kind |-> "raise", error |-> "ZeroDivisionError"]
        ELSE federated_averaging(model_weights_list,
                weights_list([i \in 1..Len(data_sizes) |->
                                frac(data_sizes[i], total_size)]))

WeightVectors(n) == [1..n -> Coordinates]
WeightVectorLists ==
    UNION {[1..k -> WeightVectors(n)] : k \in 0..MaxVectors, n \in VectorLens}
DataSizeLists == UNION {[1..k -> DataSizes] : k \in 0..MaxVectors}

InitAverage ==
    /\ Constructed
    /\ \E l \in WeightVectorLists, d \in DataSizeLists :
        input = [op |-> "averaging", model_weights_list |-> l, data_sizes |-> d]

federated_averaging_call ==
    /\ ret' = [op |-> "federated_averaging",
               val |-> federated_averaging(input.model_weights_list, NoWeights)]
    /\ UNCHANGED <<master_key, payloads, input>>
    /\ UNCHANGED ledger_vars
    /\ UNCHANGED <<coordinator_vars, request_vars>>

weighted_averaging_call ==
    /\ ret' = [op |-> "weighted_averaging",
               val |-> weighted_averaging(input.model_weights_list, input.data_sizes)]
    /\ UNCHANGED <<master_key, payloads, input>>
    /\ UNCHANGED ledger_vars
    /\ UNCHANGED <<coordinator_vars, request_vars>>

NextAverage ==
    \/ federated_averaging_call
    \/ weighted_averaging_call

SpecAverage == InitAverage /\ [][NextAverage]_vars

---------------------------------------------------------------------------
(* The request handlers of src/app.py that drive a training session:        *)
(* start_training, upload_model_update, aggregate_models,                   *)
(* verify_blockchain_update and logout.  A table is the sequence of its     *)
(* rows in the order of their ids; a commit that violates a column          *)
(* constraint raises, the handler rolls back and answers 500.  A response   *)
(* is its status code with the fields of its JSON body.                     *)

MaxSessions == 2         \* rows of training_sessions
MaxUploads == 2          \* rows of model_updates

SessionIds == 0..MaxSessions     \* 0: no 'session_id' in the request (None)
UploadMaps ==
    {<<[name |-> 1, value |-> scalar(16)]>>,
     <<[name |-> 1, value |-> scalar(48)], [name |-> 2, value |-> number_list(<<16, 48>>)]>>}

\* the characters of a base64 string: those of the token it encodes
str_chars(encrypted_str) ==
    <<encrypted_str.token.iv, encrypted_str.token.ciphertext.key>>
        \o encrypted_str.token.ciphertext.plaintext

response(op, code, body) == ("op" :> op) @@ ("code" :> code) @@ body

\* TrainingSession(..., status='initiated', round_number=1)
training_session(id, user_id) ==
    [id |-> id, user_id |-> user_id, algorithm |-> "federated_averaging",
     status |-> "initiated", round_number |-> 1, global_model |-> <<>>,
     has_global_model |-> FALSE]

start_training ==
    /\ IF session = NoUser
       THEN /\ ret' = response("start_training", 401, <<>>)
            /\ UNCHANGED db
       ELSE /\ Len(db.training_sessions) < MaxSessions
            /\ LET id == Len(db.training_sessions) + 1
               IN  /\ db' = [db EXCEPT !.training_sessions =
                                Append(@, training_session(id, session))]
                   /\ ret' = response("start_training", 201,
                                [session_id |-> id, status |-> "initiated"])
    /\ UNCHANGED <<session, master_key, payloads, input, coordinator_vars>>
    /\ UNCHANGED ledger_vars

\* ModelUpdate(..., status='received')
model_update(id, session_id, user_id, encrypted_params, model_hash) ==
    [id |-> id, session_id |-> session_id, user_id |-> user_id,
     encrypted_parameters |-> encrypted_params, model_hash |-> model_hash,
     status |-> "received"]

\* BlockchainRecord(..., status='verified')
blockchain_record(id, model_update_id, model_hash, block_number, t) ==
    [id |-> id, model_update_id |-> model_update_id,
     transaction_hash |-> model_hash, block_number |-> block_number,
     timestamp |-> t, status |-> "verified"]

\* session_id is NOT NULL and model_hash is unique in model_updates
model_update_commits(row) ==
    /\ row.session_id # 0
    /\ \A k \in 1..Len(db.model_updates) :
            db.model_updates[k].model_hash # row.model_hash

\* upload_model_update with the initialization vector Fernet draws taken
\* from `ivs`
upload_model_update_with(session_id, model_parameters, ivs) ==
    /\ IF session = NoUser
       THEN /\ ret' = response("upload_model_update", 401, <<>>)
            /\ UNCHANGED <<db, now>>
       ELSE /\ Len(db.model_updates) < MaxUploads
            /\ \E iv \in ivs :
                LET encrypted_params == encrypt_parameters(model_parameters, iv)
                    model_hash == generate_hash(as_str(str_chars(encrypted_params)))
                    row == model_update(Len(db.model_updates) + 1, session_id,
                                        session, encrypted_params, model_hash)
                IN  IF ~model_update_commits(row)
                    THEN /\ ret' = response("upload_model_update", 500, <<>>)
                         /\ UNCHANGED <<db, now>>
                    ELSE \E t \in now..MaxClock :
                         /\ db' = [db EXCEPT
                                !.model_updates = Append(@, row),
                                !.blockchain_records = Append(@,
                                    blockchain_record(Len(@) + 1, row.id, model_hash,
                                                      get_next_block_number, t))]
                         /\ now' = t
                         /\ ret' = response("upload_model_update", 201,
                                [model_hash |-> model_hash, update_id |-> row.id])
    /\ UNCHANGED <<session, master_key, payloads, input, coordinator_vars>>
    /\ UNCHANGED <<chain, pending_transactions, tampered, thr, submitted>>

upload_model_update(session_id, model_parameters) ==
    upload_model_update_with(session_id, model_parameters, IVs)

\* ModelUpdate.query.filter_by(session_id=session_id, status='received').all()
received_updates(session_id) ==
    SelectSeq(db.model_updates,
              LAMBDA u : u.session_id = session_id /\ u.status = "received")

\* TrainingSession.query.get(session_id): the positions of the rows found
session_rows(session_id) ==
    {k \in 1..Len(db.training_sessions) : db.training_sessions[k].id = session_id}

\* variant: the received updates of every session are marked
aggregated_rows_all_sessions(session_id, aggregated_model) ==
    [db EXCEPT
        !.training_sessions =
            [k \in 1..Len(@) |->
                IF @[k].id = session_id
                THEN [@[k] EXCEPT !.global_model = aggregated_model,
                                  !.has_global_model = TRUE,
                                  !.status = "aggregated",
                                  !.round_number = @ + 1]
                ELSE @[k]],
        !.model_updates =
            [k \in 1..Len(@) |->
                IF @[k].status = "received"
                THEN [@[k] EXCEPT !.status = "aggregated"]
                ELSE @[k]]]

\* the rows after the assignments of lines 258-264
aggregated_rows(session_id, aggregated_model) ==
    [db EXCEPT
        !.training_sessions =
            [k \in 1..Len(@) |->
                IF @[k].id = session_id
                THEN [@[k] EXCEPT !.global_model = aggregated_model,
                                  !.has_global_model = TRUE,
                                  !.status = "aggregated",
                                  !.round_number = @ + 1]
                ELSE @[k]],
        !.model_updates =
            [k \in 1..Len(@) |->
                IF @[k].session_id = session_id /\ @[k].status = "received"
                THEN [@[k] EXCEPT !.status = "aggregated"]
                ELSE @[k]]]

aggregate_models(session_id) ==
    /\ LET updates == received_updates(session_id)
           encrypted_params_list ==
                [k \in 1..Len(updates) |-> updates[k].encrypted_parameters]
           aggregated_model == secure_aggregate(encrypted_params_list)
       IN  IF updates = <<>>
           THEN /\ ret' = response("aggregate_models", 404, [session_id |-> session_id])
                /\ UNCHANGED db
           ELSE IF aggregated_model.kind = "raise" \/ session_rows(session_id) = {}
           THEN /\ ret' = response("aggregate_models", 500, [session_id |-> session_id])
                /\ UNCHANGED db
           ELSE /\ db' = aggregated_rows(session_id, aggregated_model.val)
                /\ ret' = response("aggregate_models", 200,
                            [session_id |-> session_id,
                             aggregated_model_hash |->
                                generate_hash(as_dict(aggregated_model.val)),
                             round_number |->
                                db'.training_sessions[
                                    CHOOSE k \in session_rows(session_id) : TRUE
                                ].round_number])
    /\ UNCHANGED <<session, master_key, payloads, input, coordinator_vars>>
    /\ UNCHANGED ledger_vars

\* BlockchainRecord.query.filter_by(transaction_hash=model_hash).first()
record_of(model_hash) ==
    SelectSeq(db.blockchain_records, LAMBDA r : r.transaction_hash = model_hash)

verify_blockchain_update(model_hash) ==
    /\ ret' = response("verify_blockchain_update", 200,
                [model_hash |-> model_hash,
                 is_verified |-> verify_hash(model_hash),
                 has_record |-> record_of(model_hash) # <<>>,
                 block_number |-> IF record_of(model_hash) # <<>>
                                  THEN record_of(model_hash)[1].block_number
                                  ELSE 0])
    /\ UNCHANGED <<db, session, master_key, payloads, input, coordinator_vars>>
    /\ UNCHANGED ledger_vars

\* session.clear()
logout ==
    /\ session' = NoUser
    /\ ret' = response("logout", 200, <<>>)
    /\ UNCHANGED <<db, master_key, payloads, input, coordinator_vars>>
    /\ UNCHANGED ledger_vars

\* the caller has logged in or has not
InitRequests ==
    /\ Objects
    /\ input = NoInput
    /\ session \in {NoUser} \cup Users

NextRequests ==
    \/ start_training
    \/ \E id \in SessionIds, p \in UploadMaps : upload_model_update(id, p)
    \/ \E id \in SessionIds : aggregate_models(id)
    \/ \E k \in 1..MaxUploads :
            /\ k <= Len(db.model_updates)
            /\ verify_blockchain_update(db.model_updates[k].model_hash)
    \/ logout

SpecRequests == InitRequests /\ [][NextRequests]_vars

---------------------------------------------------------------------------
(* The ledger, the engine and the orchestrator of app.py used by one        *)
(* caller, with the calls that fail: add_transaction on a model_hash that   *)
(* is no str, mine_block on an empty pool, get_block on an index that       *)
(* raises, secure_aggregate on no payload or on a damaged one,              *)
(* update_participant_stats on an unknown id.  The objects are              *)
(* constructed at the largest clock reading of the model, so every call     *)
(* reads that same time.                                                    *)

CoreBatches == {<<>>} \cup {<<m>> : m \in CorruptMaps}

InitCore ==
    /\ ObjectsAt(MaxClock)
    /\ session = NoUser
    /\ \E b \in CoreBatches : input = [op |-> "batch", parameters_list |-> b]

NextCore ==
    \/ \E m \in {1, NoModelHash}, u \in Users, i \in Institutions :
            add_transaction(m, u, i)
    \/ mine_block
    \/ get_block_call(0 - Len(chain) - 1)
    \/ encrypt_batch
    \/ \E k \in 1..MaxBatch, how \in Damages : corrupt(k, how)
    \/ secure_aggregate_call
    \/ \E i \in Institutions : register_participant(1, i)
    \/ \E id \in ParticipantIds : update_participant_stats(id, 900)

SpecCore == InitCore /\ [][NextCore]_vars

---------------------------------------------------------------------------
(* Every operation of the ledger called by one caller, the read-only ones  *)
(* included.  The ledger is constructed at the largest clock reading of    *)
(* the model, so every call reads that same time.                          *)

\* the entries get_transaction_history appends for one block
block_history(block, model_hash) ==
    LET found == SelectSeq(block.transactions,
                           LAMBDA transaction : transaction.model_hash = model_hash)
    IN  [k \in 1..Len(found) |->
            [block_number |-> block.block_number, block_hash |-> block.hash,
             timestamp |-> block.timestamp, transaction |-> found[k]]]

RECURSIVE history_of(_, _)
\* for block in self.chain: for transaction in block['transactions']
history_of(blocks, model_hash) ==
    IF blocks = <<>> THEN <<>>
    ELSE block_history(Head(blocks), model_hash) \o history_of(Tail(blocks), model_hash)

get_transaction_history(model_hash) == history_of(chain, model_hash)

get_transaction_history_call(model_hash) ==
    /\ ret' = [op |-> "get_transaction_history", arg |-> model_hash,
               val |-> get_transaction_history(model_hash)]
    /\ UNCHANGED <<chain, pending_transactions, now, tampered, thr, submitted>>
    /\ UNCHANGED non_ledger_vars

get_ledger_summary_call ==
    /\ ret' = [op |-> "get_ledger_summary", val |-> get_ledger_summary]
    /\ UNCHANGED <<chain, pending_transactions, now, tampered, thr, submitted>>
    /\ UNCHANGED non_ledger_vars

get_next_block_number_call ==
    /\ ret' = [op |-> "get_next_block_number", val |-> get_next_block_number]
    /\ UNCHANGED <<chain, pending_transactions, now, tampered, thr, submitted>>
    /\ UNCHANGED non_ledger_vars

InitLedger ==
    /\ ObjectsAt(MaxClock)
    /\ session = NoUser
    /\ input = NoInput

NextLedger ==
    \/ \E m \in ModelHashes, u \in Users, i \in Institutions : add_transaction(m, u, i)
    \/ mine_block
    \/ \E m \in ModelHashes : verify_hash_call(m)
    \/ verify_chain_integrity_call
    \/ \E m \in ModelHashes : get_transaction_history_call(m)
    \/ \E n \in BlockNumbers : get_block_call(n)
    \/ get_ledger_summary_call
    \/ get_next_block_number_call

SpecLedger == InitLedger /\ [][NextLedger]_vars

---------------------------------------------------------------------------
(* mine_block with the loop of _proof_of_work taken one iteration at a     *)
(* time.  thr[1] is the frame of the one caller: the candidate block, the  *)
(* local copy, the nonce and the hash last computed.  For every candidate  *)
(* of the model some nonce below NonceSpace gives a hash with `difficulty` *)
(* leading zeros (the digest mixes the nonce with a weight coprime to the  *)
(* number of leading-digit values); the loop is not taken further.  The    *)
(* ledger is constructed at the largest clock reading of the model.        *)

NonceSpace == DigitBase * DigitBase

\* lines 151-155: block_copy, nonce = 0, the hash of the block as given
pow_frame(new_block) ==
    [pc |-> "pow", new_block |-> new_block, block_copy |-> new_block,
     nonce |-> 0, hash_value |-> calculate_hash(new_block)]

\* variant: the nonce is counted but not written into the copy that is hashed
pow_advance_stale_copy(frame) ==
    [frame EXCEPT !.nonce = frame.nonce + 1,
                  !.hash_value = calculate_hash(frame.block_copy)]

\* lines 158-160: one iteration of the while loop
pow_advance(frame) ==
    LET nonce == frame.nonce + 1
        block_copy == [frame.block_copy EXCEPT !.nonce = nonce]
    IN  [frame EXCEPT !.nonce = nonce, !.block_copy = block_copy,
                      !.hash_value = calculate_hash(block_copy)]

\* lines 109-125, up to the first test of the while loop
pow_mine_start ==
    /\ thr[1] = Idle
    /\ tampered = 0
    /\ pending_transactions # <<>>
    /\ Len(chain) < MaxChain
    /\ \E t \in now..MaxClock :
         LET last_block == chain[Len(chain)]
             new_block == candidate_block(Len(chain), t, pending_transactions,
                                          last_block.hash)
         IN  /\ thr' = [thr EXCEPT ![1] = pow_frame(new_block)]
             /\ now' = t
    /\ UNCHANGED <<chain, pending_transactions, ret, tampered, submitted>>
    /\ UNCHANGED non_ledger_vars

\* line 157 false, lines 158-160
pow_step ==
    /\ thr[1].pc = "pow"
    /\ ~startswith_zeros(thr[1].hash_value, difficulty)
    /\ thr[1].nonce < NonceSpace
    /\ thr' = [thr EXCEPT ![1] = pow_advance(thr[1])]
    /\ UNCHANGED <<chain, pending_transactions, now, ret, tampered, submitted>>
    /\ UNCHANGED non_ledger_vars

\* line 157 true, line 162, then lines 125-134 of mine_block
pow_return ==
    /\ thr[1].pc = "pow"
    /\ startswith_zeros(thr[1].hash_value, difficulty)
    /\ LET new_block == [thr[1].new_block EXCEPT !.hash = thr[1].hash_value]
       IN  /\ chain' = Append(chain, new_block)
           /\ ret' = [op |-> "mine_block", none |-> FALSE, val |-> new_block]
    /\ pending_transactions' = <<>>
    /\ thr' = [thr EXCEPT ![1] = Idle]
    /\ UNCHANGED <<now, tampered, submitted>>
    /\ UNCHANGED non_ledger_vars

\* institutions of the submitters
MineInstitutions == {1, 2}

NextMine ==
    \/ /\ thr[1] = Idle
       /\ \E m \in ModelHashes, u \in Users, i \in MineInstitutions :
            add_transaction(m, u, i)
    \/ thr[1] = Idle /\ mine_block_empty
    \/ pow_mine_start
    \/ pow_step
    \/ pow_return

\* the caller's thread runs: a loop iteration or a return that can be taken
\* is taken
SpecMine ==
    /\ InitLedger
    /\ [][NextMine]_vars
    /\ WF_vars(pow_step)
    /\ WF_vars(pow_return)

---------------------------------------------------------------------------
(* Submissions, mining, and the two lookups of a model hash: verify_hash   *)
(* and get_transaction_history.  verify_hash returns true only for a block *)
(* whose search stopped at nonce 0 (the nonce found is not stored); the    *)
(* institutions are two for which one block of the model does and others   *)
(* do not.  The ledger is constructed at the largest clock reading.        *)

LookupInstitutions == {1, 4}

NextVerify ==
    \/ \E m \in ModelHashes, u \in Users, i \in LookupInstitutions :
            add_transaction(m, u, i)
    \/ mine_block
    \/ \E m \in ModelHashes : verify_hash_call(m)
    \/ \E m \in ModelHashes : get_transaction_history_call(m)

SpecVerify == InitLedger /\ [][NextVerify]_vars

---------------------------------------------------------------------------
(* Training rounds of a logged-in caller over a restart of the process.    *)
(* The database is a file and the session a signed cookie, so both outlive *)
(* the process; the engines are module-level objects constructed at import *)
(* (src/app.py lines 38-42), the engine with a fresh random key: a payload *)
(* stored before the restart does not decrypt after it.  Every upload      *)
(* draws an initialization vector that no upload drew before.              *)

\* the process is started again once
restart ==
    /\ master_key = 1
    /\ master_key' = master_key + 1
    /\ \E t \in now..MaxClock :
         /\ chain' = <<genesis_block(t)>>
         /\ now' = t
    /\ pending_transactions' = <<>>
    /\ participants' = <<>>
    /\ current_round' = 0
    /\ ret' = [op |-> "restart"]
    /\ UNCHANGED <<tampered, thr, submitted, payloads, input, request_vars>>

RoundMaps ==
    {<<[name |-> 1, value |-> scalar(16)]>>, <<[name |-> 1, value |-> scalar(48)]>>}

\* an initialization vector no earlier upload drew
fresh_iv == Len(db.model_updates) + 1

InitRounds ==
    /\ ObjectsAt(MaxClock)
    /\ input = NoInput
    /\ session \in Users

NextRounds ==
    \/ start_training
    \/ \E id \in SessionIds, p \in RoundMaps :
            upload_model_update_with(id, p, {fresh_iv})
    \/ \E id \in SessionIds : aggregate_models(id)
    \/ restart

SpecRounds == InitRounds /\ [][NextRounds]_vars

---------------------------------------------------------------------------
(* Properties of the sequential ledger, checked under Spec *)

Tail_block == chain[Len(chain)]

\* the nonce at which the proof-of-work search for chain[i] stopped
found_nonce(i) == proof_of_work_search([chain[i] EXCEPT !.hash = NoHash]).nonce

\* C1: every block of the chain, genesis and mined, satisfies
\* hash == H(serialize(block without hash)), recomputed over the stored
\* fields, the stored nonce included.
C1_HashMatchesStoredFields ==
    \A i \in 1..Len(chain) : chain[i].hash = calculate_hash(chain[i])

\* C2: the stored hash of every block appended by mine_block starts with
\* `difficulty` zero characters (the genesis block is exempt).
C2_MinedHashMeetsDifficulty ==
    \A i \in 2..Len(chain) : startswith_zeros(chain[i].hash, difficulty)

\* a mined block whose search had to go past nonce 0
C2_Witness ==
    \E i \in 2..Len(chain) :
        /\ found_nonce(i) > 0
        /\ startswith_zeros(chain[i].hash, difficulty)

\* C3: for all i > 0 chain[i].previous_hash == chain[i-1].hash and
\* chain[i].block_number == i, and the block a mine appends carries the
\* number get_next_block_number returned before the call.
C3_Linked ==
    \A i \in 1..Len(chain) :
        /\ chain[i].block_number = i - 1
        /\ i > 1 => chain[i].previous_hash = chain[i - 1].hash

C3_LinkedAndNumbered ==
    /\ []C3_Linked
    /\ [][Len(chain') > Len(chain)
            => chain'[Len(chain')].block_number = get_next_block_number]_vars

C3_Witness ==
    /\ Len(chain) >= 3
    /\ chain[3].previous_hash = chain[2].hash
    /\ chain[3].block_number = 2

in_some_block(model_hash) ==
    \E i \in 1..Len(chain) : \E k \in 1..Len(chain[i].transactions) :
        chain[i].transactions[k].model_hash = model_hash

\* C4: verify_hash returns true for a model_hash that was submitted and then
\* sealed by mine_block on an untampered chain.
C4_SealedHashVerifies ==
    (ret.op = "verify_hash" /\ in_some_block(ret.arg)) => ret.val

\* C8: a fresh ledger holds exactly the genesis block (index 0, previous_hash
\* '0', no transactions, hash equal to the recomputed digest) and chain[0]
\* stays that block under every ledger operation.
C8_GenesisShape ==
    /\ Len(chain) >= 1
    /\ chain[1].block_number = 0
    /\ chain[1].previous_hash = GenesisPrev
    /\ chain[1].transactions = <<>>
    /\ chain[1].nonce = 0
    /\ chain[1].hash = calculate_hash(chain[1])

C8_GenesisOnceAndUnchanged ==
    /\ Len(chain) = 1
    /\ []C8_GenesisShape
    /\ [][chain'[1] = chain[1]]_vars

C8_Witness ==
    /\ Len(chain) >= 3
    /\ C8_GenesisShape

\* C9: mine_block on an empty pool returns None and leaves the chain and the
\* pool as they were.
C9_EmptyPoolNoOp ==
    [][(pending_transactions = <<>> /\ mine_block)
        => /\ ret'.op = "mine_block" /\ ret'.none
           /\ chain' = chain
           /\ pending_transactions' = pending_transactions]_vars

\* mine_block has returned None on a chain that already holds a mined block
C9_Witness ==
    /\ ret.op = "mine_block" /\ ret.none
    /\ pending_transactions = <<>>
    /\ Len(chain) >= 2

\* C10: mine_block on a non-empty pool appends exactly one block holding the
\* whole pool in submission order and referencing the former tail; the pool
\* is empty afterwards and the returned block is the new tail.
C10_MineSealsPool ==
    [][(pending_transactions # <<>> /\ ret'.op = "mine_block" /\ mine_block)
        => /\ Len(chain') = Len(chain) + 1
           /\ SubSeq(chain', 1, Len(chain)) = chain
           /\ chain'[Len(chain')].transactions = pending_transactions
           /\ chain'[Len(chain')].previous_hash = chain[Len(chain)].hash
           /\ pending_transactions' = <<>>
           /\ ret'.op = "mine_block" /\ ~ret'.none
           /\ ret'.val = chain'[Len(chain')]]_vars

\* a block sealing a pool of two transactions has been returned
C10_Witness ==
    /\ ret.op = "mine_block" /\ ~ret.none
    /\ ret.val = Tail_block
    /\ Len(Tail_block.transactions) >= 2
    /\ pending_transactions = <<>>

RECURSIVE blocks_transactions(_)
\* the transaction lists of the blocks, one after another
blocks_transactions(blocks) ==
    IF blocks = <<>> THEN <<>>
    ELSE Head(blocks).transactions \o blocks_transactions(Tail(blocks))

\* every transaction the ledger holds: those of the blocks, then the pool
all_transactions == blocks_transactions(chain) \o pending_transactions

\* C31: the transactions of all blocks followed by the pending pool are the
\* submitted transactions, each once, in submission order: a fresh ledger
\* holds none, add_transaction appends the transaction it returns at the end,
\* and no other operation changes the sequence.
C31_SubmittedOnceInOrder ==
    /\ all_transactions = <<>>
    /\ [][IF \E m \in ModelHashes, u \in Users, i \in Institutions :
                add_transaction(m, u, i)
          THEN all_transactions' = Append(all_transactions, ret'.val)
          ELSE all_transactions' = all_transactions]_vars

\* a first submission is sealed in a block, a later and different one waits
\* in the pool
C31_Witness ==
    /\ Len(chain) = 2
    /\ Len(chain[2].transactions) = 1
    /\ Len(pending_transactions) = 1
    /\ chain[2].transactions[1].model_hash # pending_transactions[1].model_hash
    /\ all_transactions = <<chain[2].transactions[1], pending_transactions[1]>>

\* C33: the transaction add_transaction returns carries
\* transaction_hash == H(model_hash, submitter_id, timestamp) with the
\* timestamp stored in that same transaction, also when the clock advances
\* during the call; the call appends that one transaction to the pool,
\* leaves the chain unchanged and accepts a model_hash submitted before.
C33_HashOverStoredTimestamp ==
    /\ [](ret.op = "add_transaction" =>
            ret.val.transaction_hash
                = calculate_transaction_hash(ret.val.model_hash, ret.val.user_id,
                                             ret.val.timestamp))
    /\ [][(\E m \in ModelHashes, u \in Users, i \in Institutions :
                add_transaction(m, u, i))
            => /\ pending_transactions' = Append(pending_transactions, ret'.val)
               /\ chain' = chain]_vars

\* the lookups of a model hash; C35 is checked under SpecVerify
in_pool(model_hash) ==
    \E k \in 1..Len(pending_transactions) :
        pending_transactions[k].model_hash = model_hash

\* C35: verify_hash(model_hash) is false for a model_hash whose transactions
\* are all in the pending pool, and in every state verify_hash(h) true
\* implies that get_transaction_history(h) is not empty.
C35_PendingIsNotVerified ==
    \A h \in ModelHashes :
        /\ (in_pool(h) /\ ~in_some_block(h)) => ~verify_hash(h)
        /\ verify_hash(h) => get_transaction_history(h) # <<>>

\* one model hash verifies, with its history entry, while another one waits
\* in the pool and does not
C35_Witness ==
    \E h, g \in ModelHashes :
        /\ verify_hash(h)
        /\ Len(get_transaction_history(h)) = 1
        /\ in_pool(g) /\ ~in_some_block(g)
        /\ ~verify_hash(g)

---------------------------------------------------------------------------
(* get_block, checked under SpecRead *)

\* C12: get_block(index) returns chain[index] for 0 <= index < len(chain) and
\* returns None, without raising, for every other integer, the negative ones
\* included.
C12_OutOfRangeIsNone ==
    ret.op = "get_block"
        => IF 0 <= ret.arg /\ ret.arg < Len(chain)
           THEN ret.val = [kind |-> "value", val |-> chain[ret.arg + 1]]
           ELSE ret.val = [kind |-> "none"]

---------------------------------------------------------------------------
(* Tamper detection, checked under SpecTamper *)

\* C5: after a mutation of any stored field of chain[i-1], i > 0,
\* verify_chain_integrity reports valid: false with i in broken_links or in
\* invalid_blocks.  The mutated block sits at position `tampered`, which is
\* the block number i of its successor.
C5_TamperReportedAtSuccessor ==
    (/\ ret.op = "verify_chain_integrity"
     /\ tampered # 0
     /\ tampered < Len(chain))
        => /\ ~ret.val.valid
           /\ tampered \in (elements(ret.val.broken_links)
                             \cup elements(ret.val.invalid_blocks))

\* C11: verify_chain_integrity runs both checks on every block i >= 1:
\* invalid_blocks lists exactly the i whose stored hash differs from the
\* hash recomputed from the stored fields, broken_links exactly the i whose
\* previous_hash differs from the stored hash of block i - 1 (so an i failing
\* both is in both lists), and valid is true iff both lists are empty.
C11_BothChecksOnEveryBlock ==
    ret.op = "verify_chain_integrity"
        => /\ elements(ret.val.invalid_blocks)
                = {i \in 1..(Len(chain) - 1) :
                        chain[i + 1].hash # calculate_hash(chain[i + 1])}
           /\ elements(ret.val.broken_links)
                = {i \in 1..(Len(chain) - 1) :
                        chain[i + 1].previous_hash # chain[i].hash}
           /\ ret.val.valid
                <=> (ret.val.invalid_blocks = <<>> /\ ret.val.broken_links = <<>>)

\* the call has returned a block number in both lists, on a chain of three
\* blocks
C11_Witness ==
    /\ ret.op = "verify_chain_integrity"
    /\ Len(chain) = 3
    /\ \E i \in elements(ret.val.invalid_blocks) :
            i \in elements(ret.val.broken_links)

---------------------------------------------------------------------------
(* Concurrent callers, checked under SpecConc *)

RECURSIVE occurrences_in(_, _)
\* how many transactions of the sequence txs carry model_hash
occurrences_in(txs, model_hash) ==
    IF txs = <<>> THEN 0
    ELSE (IF Head(txs).model_hash = model_hash THEN 1 ELSE 0)
            + occurrences_in(Tail(txs), model_hash)

RECURSIVE occurrences_in_chain(_, _)
occurrences_in_chain(blocks, model_hash) ==
    IF blocks = <<>> THEN 0
    ELSE occurrences_in(Head(blocks).transactions, model_hash)
            + occurrences_in_chain(Tail(blocks), model_hash)

quiescent == \A t \in Threads : thr[t].pc = "idle"

\* C6: under concurrent add_transaction and mine_block every submitted
\* transaction ends up in exactly one place, one block of the chain or the
\* pending pool, in every interleaving.
C6_EachTransactionInOnePlace ==
    quiescent =>
        \A m \in submitted :
            occurrences_in_chain(chain, m) + occurrences_in(pending_transactions, m) = 1

\* C7: a reader running concurrently with mine_block never sees the new block
\* in the chain while its transactions are still in the pending pool.
C7_ReaderSeesAtomicMine ==
    ret.op = "get_ledger_summary" =>
        \A k \in 1..Len(ret.val.latest_block.transactions) :
            occurrences_in(ret.pool, ret.val.latest_block.transactions[k].model_hash) = 0


---------------------------------------------------------------------------
(* The engine called on one parameter mapping: C13 is checked under         *)
(* SpecEngine, C18 under SpecHash                                           *)

\* C13: decrypt_parameters applied to what encrypt_parameters returned for a
\* mapping p (numbers and lists of numbers) returns a mapping equal to p, for
\* every IV the encryption drew; the ciphertexts of two encryptions of the
\* same p may differ.
C13_DecryptInvertsEncrypt ==
    ret.op = "decrypt_parameters"
        => /\ ret.val.kind = "value"
           /\ dict_eq(ret.val.val, input.parameters)

\* p holds a number and a list of one number, was encrypted twice into two
\* different payloads, and the second one has been decrypted
C13_Witness ==
    /\ ret.op = "decrypt_parameters"
    /\ Len(payloads) = 2
    /\ payloads[1] # payloads[2]
    /\ ret.arg = payloads[2]
    /\ Len(input.parameters) = 2
    /\ \E j, k \in 1..2 :
            /\ ~input.parameters[j].value.list
            /\ input.parameters[k].value.list
            /\ Len(input.parameters[k].value.v) = 1
    /\ ret.val.kind = "value"

\* C18: verify_hash(data, expected) of the engine is true iff expected is
\* generate_hash(data); verify_hash(data, generate_hash(data)) is true; and
\* the hash of a mapping is the hash of every mapping holding the same items
\* in another insertion order.
C18_VerifyIffHashEqual ==
    /\ ret.op = "verify_hash"
            => (ret.val <=> ret.expected_hash = generate_hash(ret.data))
    /\ ret.op = "generate_hash"
            => /\ engine_verify_hash(ret.data, ret.val)
               /\ ret.data.kind = "dict"
                    => \A q \in ParamMaps :
                            dict_eq(q, ret.data.v)
                                => generate_hash(as_dict(q)) = ret.val

\* a mapping whose names were inserted in descending order has been verified
\* against the hash of the same items inserted in ascending order
C18_Witness ==
    /\ ret.op = "verify_hash"
    /\ ret.val
    /\ ret.data.kind = "dict"
    /\ Len(ret.data.v) = 2
    /\ ret.data.v[1].name > ret.data.v[2].name
    /\ ret.expected_hash = generate_hash(as_dict(reversed(ret.data.v)))


---------------------------------------------------------------------------
(* secure_aggregate: C15, C16 and C17 are checked under SpecAggregate, C14  *)
(* under SpecCorrupt                                                        *)

batch == input.parameters_list

\* the exact sum of positive numbers
exact_sum(xs) == BagCardinality([k \in 1..Len(xs) |-> xs[k]])

\* no addition of sum(xs) is rounded
exact_sums(xs) ==
    \A j \in 1..Len(xs) :
        float_round(exact_sum(SubSeq(xs, 1, j)), 1) = exact_sum(SubSeq(xs, 1, j))

\* every contributor supplies the same names, at least one, all numbers
same_scalar_names ==
    /\ batch # <<>>
    /\ batch[1] # <<>>
    /\ \A k \in 1..Len(batch) :
            /\ elements(dict_keys(batch[k])) = elements(dict_keys(batch[1]))
            /\ \A j \in 1..Len(batch[k]) : ~batch[k][j].value.list

\* the numbers the contributors supply for name, in payload order
numbers_of(name) ==
    [k \in 1..Len(batch) |-> dict_get(batch[k], name).v[1]]

\* secure_aggregate has returned from a call on the contributors' payloads
aggregate_returned ==
    ret.op = "secure_aggregate" /\ batch # <<>> /\ Len(ret.arg) = Len(batch)

\* the batch of the contributors taken in the order pi
aggregate_in_order(pi) ==
    secure_aggregate([k \in 1..Len(batch) |-> encrypt_parameters(batch[pi[k]], 1)])

\* C14: when a payload of the batch does not decrypt (bits flipped, string
\* truncated, or encrypted under another key), at any position,
\* secure_aggregate raises and returns no aggregate; the key of the engine
\* never changes, and after the failure the engine still encrypts and
\* decrypts every contributor's mapping and aggregates the intact batch.
C14_BadPayloadFailsWholeCall ==
    /\ []((/\ ret.op = "secure_aggregate"
           /\ \E k \in 1..Len(ret.arg) : undecryptable(ret.arg[k]))
            => /\ ret.val.kind = "raise"
               /\ \A k \in 1..Len(batch), iv \in IVs :
                    LET d == decrypt_parameters(encrypt_parameters(batch[k], iv))
                    IN  d.kind = "value" /\ dict_eq(d.val, batch[k])
               /\ aggregate_in_order([k \in 1..Len(batch) |-> k]).kind = "value")
    /\ [][master_key' = master_key]_vars

\* the call has failed on a batch of three whose last payload alone is bad
C14_Witness ==
    /\ ret.op = "secure_aggregate"
    /\ Len(ret.arg) = 3
    /\ ~undecryptable(ret.arg[1])
    /\ ~undecryptable(ret.arg[2])
    /\ undecryptable(ret.arg[3])
    /\ ret.val.kind = "raise"

\* C15: the result of secure_aggregate holds every name that at least one
\* payload of the batch supplies, with the mean over exactly the payloads
\* that contain it, also when the first payload does not contain the name.
C15_EveryNameAveraged ==
    (aggregate_returned /\ ret.val.kind = "value")
        => \A name \in Names :
              (\E k \in 1..Len(batch) : dict_has(batch[k], name))
                  => /\ dict_has(ret.val.val, name)
                     /\ averaged(param_values(batch, name))
                            = [kind |-> "value", val |-> dict_get(ret.val.val, name)]

\* C16 as stated: when all n contributors supply the same names with number
\* values, the result is (sum of the n values) / n for each name, the same
\* for every order of the payloads.
C16_MeanOrderIndependent ==
    (aggregate_returned /\ same_scalar_names)
        => /\ ret.val.kind = "value"
           /\ \A name \in elements(dict_keys(batch[1])) :
                dict_get(ret.val.val, name)
                    = scalar(float_round(exact_sum(numbers_of(name)), Len(batch)))
           /\ \A pi \in Permutations(1..Len(batch)) :
                aggregate_in_order(pi) = ret.val

\* C16, amended: when all n contributors supply the same names with number
\* values, the result holds exactly these names, and for each name whose
\* running sum in payload order is exact in floating point it is (sum of
\* the n values) / n, whatever that order; 1, 2, 3 yields 2.
C16_MeanWhenSumsExact ==
    (aggregate_returned /\ same_scalar_names)
        => /\ ret.val.kind = "value"
           /\ elements(dict_keys(ret.val.val)) = elements(dict_keys(batch[1]))
           /\ \A name \in elements(dict_keys(batch[1])) :
                exact_sums(numbers_of(name))
                    => dict_get(ret.val.val, name)
                         = scalar(float_round(exact_sum(numbers_of(name)), Len(batch)))
           /\ elements(batch) = {<<[name |-> 1, value |-> scalar(x)]>> : x \in {16, 32, 48}}
                    /\ Len(batch) = 3
                => ret.val.val = <<[name |-> 1, value |-> scalar(32)]>>

\* the payloads of 2, 3, 1 (in this order) have been aggregated into 2
C16_Witness ==
    /\ aggregate_returned
    /\ batch = <<<<[name |-> 1, value |-> scalar(32)]>>,
                 <<[name |-> 1, value |-> scalar(48)]>>,
                 <<[name |-> 1, value |-> scalar(16)]>>>>
    /\ ret.val = [kind |-> "value", val |-> <<[name |-> 1, value |-> scalar(32)]>>]

\* C17: secure_aggregate on an empty list of payloads raises ValueError; it
\* returns no mapping.
C17_EmptyBatchIsError ==
    (ret.op = "secure_aggregate" /\ ret.arg = <<>>)
        => ret.val = [kind |-> "raise", error |-> "ValueError"]

\* the call on the empty list has raised
C17_Witness ==
    /\ ret.op = "secure_aggregate"
    /\ ret.arg = <<>>
    /\ ret.val.kind = "raise"


---------------------------------------------------------------------------
(* check_convergence, checked under SpecConverge *)

\* C19: with threshold 0.01 and patience 3, check_convergence reports
\* converged for the history 0.80, 0.81, 0.815, 0.816 and not converged for
\* the history 0.5, 0.6, 0.75, 0.9.
C19_SpecExamples ==
    (/\ ret.op = "check_convergence"
     /\ input.threshold = 10
     /\ input.patience = 3)
        => /\ input.accuracy_history = <<800, 810, 815, 816>>
                => ret.val.kind = "value" /\ ret.val.val.converged
           /\ input.accuracy_history = <<500, 600, 750, 900>>
                => ret.val.kind = "value" /\ ~ret.val.val.converged

\* C20: on a history of at least `patience` entries, check_convergence
\* reports converged iff every difference between two consecutive entries
\* among the last `patience` entries is below the threshold; no entry older
\* than these takes part.
C20_DeltasWithinLastPatience ==
    (/\ ret.op = "check_convergence"
     /\ input.patience >= 2
     /\ Len(input.accuracy_history) >= input.patience)
        => /\ ret.val.kind = "value"
           /\ ret.val.val.converged
                <=> \A j \in (Len(input.accuracy_history) - input.patience + 2)
                                ..Len(input.accuracy_history) :
                        input.accuracy_history[j] - input.accuracy_history[j - 1]
                            < input.threshold

\* C21: on a history with fewer than `patience` entries, the empty history
\* included, check_convergence raises nothing and returns converged false
\* with the message that the history is not enough, for every patience >= 1.
C21_ShortHistoryNotConverged ==
    (/\ ret.op = "check_convergence"
     /\ input.patience >= 1
     /\ Len(input.accuracy_history) < input.patience)
        => ret.val = [kind |-> "value",
                      val |-> [converged |-> FALSE,
                               message |-> "Not enough history"]]

\* the call on the empty history with patience 1 has returned, and so has a
\* call on a history one entry short of its patience
C21_Witness ==
    /\ ret.op = "check_convergence"
    /\ ret.val.kind = "value"
    /\ \/ input.accuracy_history = <<>> /\ input.patience = 1
       \/ /\ Len(input.accuracy_history) = input.patience - 1
          /\ input.patience >= 2

\* the entries check_convergence takes differences of, when the history has
\* more than `patience` entries, do not rise
recent_non_increasing(accuracy_history, patience) ==
    \A j \in (Len(accuracy_history) - patience + 1)..Len(accuracy_history) :
        accuracy_history[j] <= accuracy_history[j - 1]

\* C36 (checked under SpecPlateau): check_convergence compares the
\* differences with their sign: a history of at least `patience` + 1 entries
\* whose recent entries never rise is reported converged for every
\* threshold > 0, and so is a history of one entry with patience 1, which
\* holds no difference.
C36_SignedDeltas ==
    (ret.op = "check_convergence" /\ input.threshold > 0)
        => /\ (/\ Len(input.accuracy_history) >= input.patience + 1
               /\ recent_non_increasing(input.accuracy_history, input.patience))
                 => ret.val.kind = "value" /\ ret.val.val.converged
           /\ (Len(input.accuracy_history) = 1 /\ input.patience = 1)
                 => ret.val.kind = "value" /\ ret.val.val.converged

\* a history that falls by more than the threshold at each of its last
\* steps has been reported converged
C36_Witness ==
    /\ ret.op = "check_convergence"
    /\ input.accuracy_history = <<900, 810, 800>>
    /\ input.patience = 2
    /\ input.threshold = 1
    /\ ret.val.kind = "value" /\ ret.val.val.converged

---------------------------------------------------------------------------
(* The participant registry and the round, checked under SpecCoordinator *)

\* C22: register_participant on an id that is registered raises nothing,
\* returns the already-registered status and leaves the whole registry as it
\* was (the record of that id and of every other id), whatever the current
\* round is.
C22_ReRegisterIsNoOp ==
    [][\A id \in DOMAIN participants :
        (ret'.op = "register_participant" /\ ret'.arg = id)
            => /\ ret'.val = [kind |-> "value",
                              val |-> [status |-> "already_registered"]]
               /\ participants' = participants]_vars

\* an id whose record has counted an update was registered again during a
\* round, and its record still has the count
C22_Witness ==
    /\ ret.op = "register_participant"
    /\ ret.val.val.status = "already_registered"
    /\ current_round > 0
    /\ participants[ret.arg].rounds_participated > 0

\* C23: update_participant_stats(id, accuracy) on a registered id adds
\* exactly 1 to rounds_participated and to model_updates_submitted of that
\* record, sets its last_accuracy to accuracy and changes no other record;
\* on an id that is not registered it raises the not-found error and the
\* registry stays as it was.
C23_UpdateCountsOneOrFails ==
    [][\A id \in ParticipantIds :
        (ret'.op = "update_participant_stats" /\ ret'.arg = id)
            => IF id \in DOMAIN participants
               THEN /\ ret'.val.kind = "value"
                    /\ DOMAIN participants' = DOMAIN participants
                    /\ participants'[id].rounds_participated
                            = participants[id].rounds_participated + 1
                    /\ participants'[id].model_updates_submitted
                            = participants[id].model_updates_submitted + 1
                    /\ participants'[id].last_accuracy = ret'.accuracy
                    /\ \A other \in (DOMAIN participants) \ {id} :
                            participants'[other] = participants[other]
               ELSE /\ ret'.val = [kind |-> "raise", error |-> "ValueError"]
                    /\ participants' = participants]_vars

\* a second update of one record has returned while another record exists
C23_Witness ==
    /\ ret.op = "update_participant_stats"
    /\ ret.val.kind = "value"
    /\ participants[ret.arg].rounds_participated = 2
    /\ participants[ret.arg].last_accuracy = ret.accuracy
    /\ DOMAIN participants = ParticipantIds

\* C24: a record created by register_participant stays in the registry:
\* no operation removes it, and its rounds_participated and
\* model_updates_submitted never decrease.
C24_RecordsAreKept ==
    [][\A id \in DOMAIN participants :
        /\ id \in DOMAIN participants'
        /\ participants'[id].rounds_participated
                >= participants[id].rounds_participated
        /\ participants'[id].model_updates_submitted
                >= participants[id].model_updates_submitted]_vars

\* C25: the current round number never decreases, and once initialize_round
\* has made a round it is at least 1.
C25_RoundNumberIncreases ==
    [][/\ current_round' >= current_round
       /\ ret'.op = "initialize_round" => current_round' >= 1]_vars

\* C38: initialize_round(round_number, algorithm) returns status
\* initialized with a participant count equal to the number of participants
\* registered at the moment of the call, sets the current round to
\* round_number and leaves the registry unchanged; the count returned is a
\* number, which a later registration does not change.
C38_RoundSnapshot ==
    [][ret'.op = "initialize_round" =>
        /\ ret'.val.kind = "value"
        /\ ret'.val.val.status = "initialized"
        /\ ret'.val.val.round_number = ret'.arg
        /\ ret'.val.val.participants = Cardinality(DOMAIN participants)
        /\ ret'.val.val.participants \in Nat
        /\ current_round' = ret'.arg
        /\ participants' = participants]_vars

\* round 1 has been initialized with both participants registered
C38_Witness ==
    /\ ret.op = "initialize_round"
    /\ ret.val.val.participants = 2
    /\ current_round = ret.arg
    /\ ret.arg = 1

---------------------------------------------------------------------------
(* The request handlers, checked under SpecRequests *)

\* the lifecycle of a round
RoundStatuses == <<"initialized", "collecting", "aggregating", "aggregated", "completed">>

\* C26: the status of a round is one of initialized, collecting,
\* aggregating, aggregated, completed, and every change of it goes from one
\* of these to the next one in this order.
C26_StatusFollowsLifecycle ==
    [][\A k \in 1..Len(db'.training_sessions) :
        /\ db'.training_sessions[k].status \in elements(RoundStatuses)
        /\ (/\ k <= Len(db.training_sessions)
            /\ db'.training_sessions[k].status # db.training_sessions[k].status)
                => \E j \in 1..(Len(RoundStatuses) - 1) :
                        /\ db.training_sessions[k].status = RoundStatuses[j]
                        /\ db'.training_sessions[k].status = RoundStatuses[j + 1]]_vars

\* C30: once an uploaded update has been aggregated, the ledger holds its
\* model hash in a mined block: verify-update answers is_verified true for
\* the model hash of every update whose status is aggregated.
C30_AggregatedUpdateIsVerified ==
    (/\ ret.op = "verify_blockchain_update"
     /\ \E k \in 1..Len(db.model_updates) :
            /\ db.model_updates[k].model_hash = ret.model_hash
            /\ db.model_updates[k].status = "aggregated")
        => ret.is_verified

---------------------------------------------------------------------------
(* federated_averaging and weighted_averaging, checked under SpecAverage *)

\* the sum over the vectors i of data_sizes[i] * vector i's coordinate j
weighted_total(model_weights_list, data_sizes, j) ==
    int_sum([i \in 1..Len(data_sizes) |-> data_sizes[i] * model_weights_list[i][j]])

ScaleFactors == {2, 3}

C28_ZeroSumIsDivisionError ==
    (ret.op = "weighted_averaging" /\ int_sum(input.data_sizes) = 0)
        => ret.val = [kind |-> "raise", error |-> "ZeroDivisionError"]

---------------------------------------------------------------------------
(* Calls that fail, checked under SpecCore *)

\* the call that returned last ended in an error: it raised, or it was
\* mine_block finding nothing to mine
failed(r) ==
    CASE r.op \in {"update_participant_stats", "secure_aggregate", "get_block"}
            -> r.val.kind = "raise"
      [] r.op = "add_transaction" -> "kind" \in DOMAIN r.val
      [] r.op = "mine_block" -> r.none
      [] OTHER -> FALSE

\* C29: a call of the ledger, the engine or the orchestrator that ends in
\* an error (rejected submission, unknown participant, empty batch, payload
\* that does not decrypt, nothing to mine, index that raises) leaves the
\* chain, the pending pool, the engine key, the participant registry and
\* everything else the later calls read as they were before the call.
C29_FailedCallChangesNothing ==
    [][failed(ret')
        => /\ chain' = chain
           /\ pending_transactions' = pending_transactions
           /\ master_key' = master_key
           /\ participants' = participants
           /\ UNCHANGED <<now, payloads, current_round, db, session>>]_vars

---------------------------------------------------------------------------
(* Every ledger operation, checked under SpecLedger *)

ReadOnlyOps ==
    {"verify_hash", "verify_chain_integrity", "get_transaction_history",
     "get_block", "get_ledger_summary", "get_next_block_number"}

\* C32: the chain is append-only: after every ledger operation the chain of
\* before is a prefix of the chain, only mine_block extends it and by at most
\* one block, and verify_hash, verify_chain_integrity,
\* get_transaction_history, get_block, get_ledger_summary and
\* get_next_block_number leave the chain and the pending pool as they were.
C32_AppendOnly ==
    [][/\ Len(chain) <= Len(chain') /\ Len(chain') <= Len(chain) + 1
       /\ SubSeq(chain', 1, Len(chain)) = chain
       /\ chain' # chain => ret'.op = "mine_block" /\ ~ret'.none
       /\ ret'.op \in ReadOnlyOps =>
              chain' = chain /\ pending_transactions' = pending_transactions]_vars

\* get_transaction_history has returned the entry of a sealed transaction
\* while another transaction waits in the pool
C32_Witness ==
    /\ ret.op = "get_transaction_history"
    /\ Len(ret.val) = 1
    /\ Len(chain) >= 2
    /\ pending_transactions # <<>>

---------------------------------------------------------------------------
(* The proof-of-work loop, checked under SpecMine *)

mining == thr[1].pc = "pow"

\* the hash the loop holds is that of the candidate with the nonce reached,
\* and no smaller nonce gave a hash with `difficulty` leading zeros
C34_FirstNonce ==
    mining =>
        /\ thr[1].hash_value
              = calculate_hash([thr[1].new_block EXCEPT !.nonce = thr[1].nonce])
        /\ \A k \in 0..(thr[1].nonce - 1) :
              ~startswith_zeros(
                  calculate_hash([thr[1].new_block EXCEPT !.nonce = k]), difficulty)

\* C34: a mine_block call on a non-empty pool comes to an end, and where it
\* ends the block is appended and the pool empty; its proof-of-work loop
\* starts at nonce 0, goes from each nonce to the next one and stops at the
\* first nonce whose hash has `difficulty` leading zeros.
C34_MiningTerminates ==
    /\ []C34_FirstNonce
    /\ [][/\ (~mining /\ mining') => thr'[1].nonce = 0
          /\ (mining /\ mining') => thr'[1].nonce = thr[1].nonce + 1
          /\ (mining /\ ~mining') =>
                /\ startswith_zeros(thr[1].hash_value, difficulty)
                /\ chain' = Append(chain, sealed_block(thr[1].new_block))
                /\ chain'[Len(chain')].transactions = pending_transactions
                /\ pending_transactions' = <<>>
                /\ ret'.op = "mine_block" /\ ~ret'.none]_vars
    /\ mining ~> ~mining

\* a search that went past nonce 1 has ended with its block appended
C34_Witness ==
    /\ ~mining
    /\ ret.op = "mine_block" /\ ~ret.none
    /\ ret.val = chain[Len(chain)]
    /\ proof_of_work_search([ret.val EXCEPT !.hash = NoHash]).nonce >= 2
    /\ pending_transactions = <<>>

---------------------------------------------------------------------------
(* Training rounds, checked under SpecRounds *)

\* the positions of the updates aggregate_models(session_id) selects
selected(session_id) ==
    {k \in 1..Len(db.model_updates) :
        /\ db.model_updates[k].session_id = session_id
        /\ db.model_updates[k].status = "received"}

\* the payloads at the positions of S, in the order of the rows
payloads_at(S) ==
    LET rows == SelectSeq([k \in 1..Len(db.model_updates) |-> k], LAMBDA k : k \in S)
    IN  [j \in 1..Len(rows) |-> db.model_updates[rows[j]].encrypted_parameters]

\* C37: aggregate_models aggregates exactly the updates of the session whose
\* status is received; when it succeeds all of them and no others are
\* marked aggregated, the session's round_number grows by exactly 1 and its
\* global model is the aggregate of their payloads; when it fails (no
\* update, a payload that does not decrypt) no row changes; and an update
\* marked aggregated is never received again, so it enters one aggregate at
\* most.
C37_UpdateAggregatedOnce ==
    /\ [][ret'.op = "aggregate_models" =>
            LET id == ret'.session_id
            IN  IF ret'.code = 200
                THEN /\ selected(id) # {}
                     /\ Len(db'.model_updates) = Len(db.model_updates)
                     /\ \A k \in 1..Len(db.model_updates) :
                          db'.model_updates[k] =
                            IF k \in selected(id)
                            THEN [db.model_updates[k] EXCEPT !.status = "aggregated"]
                            ELSE db.model_updates[k]
                     /\ Len(db'.training_sessions) = Len(db.training_sessions)
                     /\ \A k \in 1..Len(db.training_sessions) :
                          IF db.training_sessions[k].id = id
                          THEN /\ db'.training_sessions[k].round_number
                                    = db.training_sessions[k].round_number + 1
                               /\ db'.training_sessions[k].has_global_model
                               /\ [kind |-> "value",
                                    val |-> db'.training_sessions[k].global_model]
                                    = secure_aggregate(payloads_at(selected(id)))
                          ELSE db'.training_sessions[k] = db.training_sessions[k]
                ELSE db' = db]_vars
    /\ [][\A k \in 1..Len(db.model_updates) :
            db.model_updates[k].status = "aggregated"
                => /\ k <= Len(db'.model_updates)
                   /\ db'.model_updates[k].status = "aggregated"]_vars

\* one session has been aggregated into its second round while an update of
\* the other session is still received
C37_Witness ==
    /\ ret.op = "aggregate_models"
    /\ ret.code = 200
    /\ \E k \in 1..Len(db.training_sessions) :
          /\ db.training_sessions[k].id = ret.session_id
          /\ db.training_sessions[k].round_number = 2
    /\ \E j, k \in 1..Len(db.model_updates) :
          /\ db.model_updates[j].session_id = ret.session_id
          /\ db.model_updates[j].status = "aggregated"
          /\ db.model_updates[k].session_id # ret.session_id
          /\ db.model_updates[k].status = "received"

\* aggregate_models has failed on a payload stored before a restart
C37_FailureReached ==
    /\ ret.op = "aggregate_models"
    /\ ret.code = 500
    /\ master_key > 1
    /\ session_rows(ret.session_id) # {}

===========================================================================
